---- MODULE Spec2Model ----
(***************************************************************************)
(* Snapshot / history publishing of server_metrics_sheet_updater against  *)
(* a remote spreadsheet.  The remote spreadsheet is the state; every      *)
(* method of SheetsService is one action that issues its remote calls in  *)
(* program order.  A remote call may be rejected by the remote (input     *)
(* `fault`): a rejection inside a try/except of the code is swallowed,    *)
(* any other rejection raises out of the method.                          *)
(***************************************************************************)
EXTENDS Integers, Sequences, FiniteSets, TLC

VARIABLES sheets, last

vars == <<sheets, last>>

(***************************************************************************)
(* Bounds of the model                                                     *)
(***************************************************************************)
MaxRows == 2

MaxHistoryRows == 4

MaxMergeRows == 3

\* conditional-format rules a snapshot sheet accumulates when their cleanup
\* keeps failing
MaxRules == 4

(***************************************************************************)
(* Program constants                                                       *)
(***************************************************************************)
start_row == 6

NewSheetRows == 100

NewSheetCols == 20

ColZ == 26

(***************************************************************************)
(* Python values carried by a DataFrame cell or a config entry.  Text is  *)
(* a sequence of characters.                                               *)
(***************************************************************************)
Str(s) == [t |-> "str", s |-> s]

Num(n) == [t |-> "num", n |-> n]

Ts(k) == [t |-> "ts", k |-> k]

NaN == [t |-> "nan"]

PyNone == [t |-> "none"]

Absent == "<absent>"

Max(S) == CHOOSE m \in S : \A k \in S : k <= m

RECURSIVE lstrip(_)
lstrip(s) == IF s # <<>> /\ Head(s) = " " THEN lstrip(Tail(s)) ELSE s

RECURSIVE rstrip(_)
rstrip(s) ==
  IF s # <<>> /\ s[Len(s)] = " " THEN rstrip(SubSeq(s, 1, Len(s) - 1)) ELSE s

strip(s) == rstrip(lstrip(s))

Digit == <<"0", "1", "2", "3", "4", "5", "6", "7", "8", "9">>

RECURSIVE IntText(_)
IntText(n) ==
  IF n < 10 THEN <<Digit[n + 1]>> ELSE IntText(n \div 10) \o <<Digit[(n % 10) + 1]>>

\* str(x) of Python for the values a threshold can carry
PyStr(v) ==
  CASE v.t = "str" -> v.s
    [] v.t = "num" -> IntText(v.n)
    [] v.t = "none" -> <<"N", "o", "n", "e">>
    [] v.t = "ts" -> <<"D">> \o IntText(v.k)
    [] OTHER -> <<"n", "a", "n">>

\* Python's == on cell values: NaN is unequal to everything, itself included
PyEq(a, b) == a.t # "nan" /\ b.t # "nan" /\ a = b

(***************************************************************************)
(* DataFrame: ordered column names and rows of values                      *)
(***************************************************************************)
DataFrame(cols, rows) == [columns |-> cols, rows |-> rows]

len(df) == Len(df.rows)

empty(df) == Len(df.rows) = 0 \/ Len(df.columns) = 0

Column(df, j) == [i \in 1..Len(df.rows) |-> df.rows[i][j]]

\* the dtype pandas gives a column: missing values do not change it
ColumnDtype(df, j) ==
  LET kinds == {df.rows[i][j].t : i \in 1..Len(df.rows)} IN
  IF kinds \subseteq {"num", "nan"} THEN "float64"
  ELSE IF kinds \subseteq {"ts", "nan"} THEN "datetime64"
  ELSE "object"

IsObjectColumn(df, j) == ColumnDtype(df, j) = "object"

\* df.apply(lambda x: x.str.strip() if x.dtype == "object" else x):
\* .str.strip() of a non-text element of an object column is NaN
StripFrame(df) ==
  [df EXCEPT !.rows =
     [i \in 1..Len(df.rows) |->
        [j \in 1..Len(df.columns) |->
           LET v == df.rows[i][j] IN
           IF IsObjectColumn(df, j)
             THEN IF v.t = "str" THEN Str(strip(v.s)) ELSE NaN
             ELSE v]]]

(***************************************************************************)
(* Range arithmetic.  A1 ranges are 1-based inclusive rectangles; grid    *)
(* ranges are 0-based half-open.                                           *)
(***************************************************************************)
Rect(r1, c1, r2, c2) == [r1 |-> r1, c1 |-> c1, r2 |-> r2, c2 |-> c2]

CellsOf(rg) == (rg.r1 .. rg.r2) \X (rg.c1 .. rg.c2)

Inside(inner, outer) ==
  /\ outer.r1 <= inner.r1 /\ inner.r2 <= outer.r2
  /\ outer.c1 <= inner.c1 /\ inner.c2 <= outer.c2

Overlap(a, b) ==
  /\ a.r1 <= b.r2 /\ b.r1 <= a.r2
  /\ a.c1 <= b.c2 /\ b.c1 <= a.c2

a1_range_to_grid_range(rg, sheetId) ==
  [sheetId |-> sheetId,
   startRowIndex |-> rg.r1 - 1, endRowIndex |-> rg.r2,
   startColumnIndex |-> rg.c1 - 1, endColumnIndex |-> rg.c2]

Letters == <<"A", "B", "C", "D", "E", "F">>

\* rowcol_to_a1(1, c).replace("1", "")
col_letter(c) == Letters[c]

(***************************************************************************)
(* The remote spreadsheet.  `sheets` maps the title of every existing     *)
(* worksheet to its grid size, its non-empty cells, its merged regions,   *)
(* its ordered list of conditional-format rules, its embedded charts and   *)
(* the data-validation rules of its cells.                                 *)
(***************************************************************************)
NoCells == [a \in {} |-> 0]

Sheet(id, rows, cols) ==
  [id |-> id, rowCount |-> rows, colCount |-> cols,
   cells |-> NoCells, merges |-> {}, rules |-> <<>>,
   charts |-> <<>>, validations |-> NoCells]

Text(s) == [t |-> "text", s |-> s]

Number(n) == [t |-> "number", n |-> n]

Date(k) == [t |-> "date", k |-> k]

Formula(f) == [t |-> "formula", f |-> f]

Blank == [t |-> "blank"]

Null == [t |-> "null"]

LastRow(ws) ==
  IF DOMAIN ws.cells = {} THEN 0 ELSE Max({a[1] : a \in DOMAIN ws.cells})

\* text of a timestamp, strftime('%Y-%m-%d %H:%M:%S') / str(Timestamp)
DateText(k) == PyStr(Ts(k))

IsDigits(s) == s # <<>> /\ \A i \in 1..Len(s) : \E d \in 1..10 : Digit[d] = s[i]

RECURSIVE TextInt(_)
TextInt(s) ==
  IF s = <<>> THEN 0
  ELSE 10 * TextInt(SubSeq(s, 1, Len(s) - 1))
       + (CHOOSE d \in 0..9 : Digit[d + 1] = s[Len(s)])

\* valueInputOption=USER_ENTERED: the sheet parses text as the UI would
UserEntered(v) ==
  CASE v.t = "null" -> Null
    [] v.t = "number" -> v
    [] v.t = "text" ->
         IF v.s = <<>> THEN Blank
         ELSE IF Head(v.s) = "=" THEN Formula(v.s)
         ELSE IF Head(v.s) = "D" /\ IsDigits(Tail(v.s)) THEN Date(TextInt(Tail(v.s)))
         ELSE IF IsDigits(v.s) THEN Number(TextInt(v.s))
         ELSE v
    [] OTHER -> v

\* valueInputOption=RAW: text stays text
Raw(v) == IF v.t = "text" /\ v.s = <<>> THEN Blank ELSE v

\* write a matrix of cell values with its top-left corner at (r, c):
\* a Blank empties the cell, a Null leaves it as it is
WriteValues(cells, r, c, values) ==
  LET written == UNION {{<<r + i - 1, c + j - 1>> : j \in 1..Len(values[i])}
                          : i \in 1..Len(values)}
      val(a) == values[a[1] - r + 1][a[2] - c + 1]
      keep == {a \in DOMAIN cells : a \notin written \/ val(a) = Null}
              \cup {a \in written : val(a) \notin {Blank, Null}}
  IN  [a \in keep |->
         IF a \in written /\ val(a) # Null THEN val(a) ELSE cells[a]]

Ok(s) == [ok |-> TRUE, kind |-> "", sheets |-> s]

Rejected(s, kind) == [ok |-> FALSE, kind |-> kind, sheets |-> s]

HasSheetId(s, id) == \E n \in DOMAIN s : s[n].id = id

NameOfId(s, id) == CHOOSE n \in DOMAIN s : s[n].id = id

RemoveAt(seq, i) == SubSeq(seq, 1, i - 1) \o SubSeq(seq, i + 1, Len(seq))

InsertAt(seq, i, e) == SubSeq(seq, 1, i - 1) \o <<e>> \o SubSeq(seq, i, Len(seq))

\* the chart id the remote gives to a new chart: one that is not in use
FreshChartId(s) ==
  LET used == UNION {{s[n].charts[k].chartId : k \in 1..Len(s[n].charts)}
                       : n \in DOMAIN s}
  IN  CHOOSE i \in 1..Cardinality(used) + 1 :
        i \notin used /\ \A j \in 1..i - 1 : j \in used

\* spreadsheets.batchUpdate: the requests are applied in order, and the
\* whole batch is rejected, nothing applied, when one of them is invalid
RECURSIVE ApplyRequests(_, _, _)
ApplyRequests(s0, s, reqs) ==
  IF reqs = <<>> THEN Ok(s)
  ELSE
    LET q == Head(reqs) IN
    CASE q.req = "deleteConditionalFormatRule" ->
           IF HasSheetId(s, q.sheetId)
              /\ q.index < Len(s[NameOfId(s, q.sheetId)].rules)
             THEN LET n == NameOfId(s, q.sheetId) IN
                  ApplyRequests(s0,
                    [s EXCEPT ![n].rules = RemoveAt(@, q.index + 1)], Tail(reqs))
             ELSE Rejected(s0, "APIError")
      [] q.req = "addConditionalFormatRule" ->
           LET sid == q.rule.ranges[1].sheetId IN
           IF HasSheetId(s, sid) /\ q.index <= Len(s[NameOfId(s, sid)].rules)
             THEN LET n == NameOfId(s, sid) IN
                  ApplyRequests(s0,
                    [s EXCEPT ![n].rules = InsertAt(@, q.index + 1, q.rule)],
                    Tail(reqs))
             ELSE Rejected(s0, "APIError")
      [] q.req = "deleteEmbeddedObject" ->
           IF \E n \in DOMAIN s : \E k \in 1..Len(s[n].charts) :
                s[n].charts[k].chartId = q.objectId
             THEN ApplyRequests(s0,
                    [n \in DOMAIN s |->
                       [s[n] EXCEPT !.charts =
                          SelectSeq(@, LAMBDA c : c.chartId # q.objectId)]],
                    Tail(reqs))
             ELSE Rejected(s0, "APIError")
      [] q.req = "setDataValidation" ->
           IF HasSheetId(s, q.range.sheetId)
             THEN LET n == NameOfId(s, q.range.sheetId)
                      in(a) == /\ q.range.startRowIndex < a[1]
                               /\ a[1] <= q.range.endRowIndex
                               /\ q.range.startColumnIndex < a[2]
                               /\ a[2] <= q.range.endColumnIndex
                      old == s[n].validations
                      kept == {a \in DOMAIN old : ~in(a)}
                      set == IF q.rule = PyNone THEN {}
                             ELSE (q.range.startRowIndex + 1..q.range.endRowIndex)
                                  \X (q.range.startColumnIndex + 1..q.range.endColumnIndex)
                  IN  ApplyRequests(s0,
                        [s EXCEPT ![n].validations =
                           [a \in kept \cup set |->
                              IF a \in set THEN q.rule ELSE old[a]]],
                        Tail(reqs))
             ELSE Rejected(s0, "APIError")
      [] q.req = "addChart" ->
           IF HasSheetId(s, q.anchorCell.sheetId)
             THEN LET n == NameOfId(s, q.anchorCell.sheetId) IN
                  ApplyRequests(s0,
                    [s EXCEPT ![n].charts =
                       Append(@, [chartId |-> FreshChartId(s), title |-> q.title,
                                  anchorCell |-> q.anchorCell])],
                    Tail(reqs))
             ELSE Rejected(s0, "APIError")
      [] q.req \in {"updateSheetProperties", "repeatCell"} ->
           IF HasSheetId(s, q.sheetId)
             THEN ApplyRequests(s0, s, Tail(reqs))
             ELSE Rejected(s0, "APIError")
      [] OTHER -> Rejected(s0, "APIError")

NextSheetId(s) == IF DOMAIN s = {} THEN 1 ELSE Max({s[n].id : n \in DOMAIN s}) + 1

\* the effect of one remote call on the spreadsheet
Exec(s, c) ==
  CASE c.op = "worksheet" ->
         IF c.name \in DOMAIN s THEN Ok(s) ELSE Rejected(s, "WorksheetNotFound")
    [] c.op = "add_worksheet" ->
         IF c.name \in DOMAIN s THEN Rejected(s, "APIError")
         ELSE Ok([n \in DOMAIN s \cup {c.name} |->
                    IF n = c.name THEN Sheet(NextSheetId(s), c.rows, c.cols)
                    ELSE s[n]])
    [] c.op \in {"get_values", "get_all_values", "fetch_sheet_metadata",
                 "open_by_key"} -> Ok(s)
    [] c.op = "col_values" -> Ok(s)
    \* time.sleep(seconds): no remote call at all
    [] c.op = "sleep" -> Ok(s)
    [] c.op \in {"format", "batch_format"} -> Ok(s)
    [] c.op = "clear" -> Ok([s EXCEPT ![c.name].cells = NoCells])
    [] c.op = "unmerge_cells" ->
         Ok([s EXCEPT ![c.name].merges = {m \in @ : ~Inside(m, c.range)}])
    [] c.op = "merge_cells" ->
         \* merged regions never overlap: the new region takes the place of
         \* the ones it meets
         Ok([s EXCEPT ![c.name].merges =
               {m \in @ : ~Overlap(m, c.range)} \cup {c.range}])
    [] c.op = "update" ->
         Ok([s EXCEPT ![c.name].cells =
               WriteValues(@, c.at[1], c.at[2],
                 [i \in 1..Len(c.values) |->
                    [j \in 1..Len(c.values[i]) |-> Raw(c.values[i][j])]])])
    [] c.op \in {"update_acell", "update_cells"} ->
         Ok([s EXCEPT ![c.name].cells =
               WriteValues(@, c.at[1], c.at[2],
                 [i \in 1..Len(c.values) |->
                    [j \in 1..Len(c.values[i]) |-> UserEntered(c.values[i][j])]])])
    [] c.op = "resize" ->
         Ok([s EXCEPT ![c.name] =
               [@ EXCEPT !.rowCount = c.rows, !.colCount = c.cols,
                  !.cells = [a \in {b \in DOMAIN @ : b[1] <= c.rows /\ b[2] <= c.cols}
                               |-> s[c.name].cells[a]],
                  !.merges = {m \in @ : m.r2 <= c.rows /\ m.c2 <= c.cols}]])
    [] c.op \in {"append_rows", "append_rows_raw"} ->
         LET ws == s[c.name]
             at == LastRow(ws) + 1
             cells == WriteValues(ws.cells, at, 1,
                        [i \in 1..Len(c.values) |->
                           [j \in 1..Len(c.values[i]) |->
                              IF c.op = "append_rows"
                                THEN UserEntered(c.values[i][j])
                                ELSE Raw(c.values[i][j])]])
             need == at + Len(c.values) - 1
         IN  Ok([s EXCEPT ![c.name] =
                   [@ EXCEPT !.cells = cells,
                             !.rowCount = IF need > @ THEN need ELSE @]])
    [] c.op = "batch_update" -> ApplyRequests(s, s, c.requests)
    [] OTHER -> Rejected(s, "APIError")

(***************************************************************************)
(* A method body is the sequence of remote calls it issues.  A call       *)
(* carries the try block it sits in (`try`, 0 when none), the kinds of    *)
(* rejection that block catches (`catch`), and `when`: 0 for a call on    *)
(* the normal path, g for a call of the except-handler of try block g;    *)
(* `reraise` holds the caught kinds that the handler raises again, and    *)
(* `after` is g for a call that is only made with a value that try block  *)
(* g produced (0 when the call needs none).                                *)
(* `fault` maps the positions of the calls the remote rejects to the kind  *)
(* of rejection: "APIError429" is an APIError that reports a rate limit,   *)
(* "APIError" any other APIError.                                          *)
(***************************************************************************)
Call(c) == c @@ [try |-> 0, catch |-> {}, reraise |-> {}, when |-> 0, after |-> 0]

\* no call is rejected
NoFault == <<>>

\* what `except Exception` and a bare `except` catch
AnyException == {"WorksheetNotFound", "APIError", "APIError429"}

\* what `except gspread.exceptions.APIError` catches
AnyAPIError == {"APIError", "APIError429"}

\* the try blocks in which a rejection was caught
FailedGroups(rejections) ==
  {rejections[k].call.try : k \in {j \in 1..Len(rejections) : rejections[j].caught}}

RECURSIVE RunFrom(_, _, _, _, _, _)
RunFrom(s, calls, i, fault, rejections, issued) ==
  LET failed == FailedGroups(rejections) IN
  IF i > Len(calls)
    THEN [sheets |-> s, raised |-> FALSE, calls |-> issued, swallowed |-> failed,
          rejections |-> rejections]
  ELSE
    LET c == calls[i] IN
    IF \/ (c.try # 0 /\ c.try \in failed)
       \/ (c.when # 0 /\ c.when \notin failed)
       \/ (c.after # 0 /\ c.after \in failed)
      THEN RunFrom(s, calls, i + 1, fault, rejections, issued)
    ELSE
      LET r == IF i \in DOMAIN fault THEN Rejected(s, fault[i]) ELSE Exec(s, c)
          rejection == [at |-> i, kind |-> r.kind, call |-> c,
                        injected |-> i \in DOMAIN fault,
                        caught |-> r.kind \in c.catch \ c.reraise]
      IN
      IF r.ok
        THEN RunFrom(r.sheets, calls, i + 1, fault, rejections, Append(issued, c))
      ELSE IF rejection.caught
        THEN RunFrom(s, calls, i + 1, fault, Append(rejections, rejection),
                     Append(issued, c))
      ELSE [sheets |-> s, raised |-> TRUE, calls |-> Append(issued, c),
            swallowed |-> failed, rejections |-> Append(rejections, rejection)]

Run(s, calls, fault) == RunFrom(s, calls, 1, fault, <<>>, <<>>)

\* the result of a method that returns before its first remote call
Returned(s) ==
  [sheets |-> s, raised |-> FALSE, calls |-> <<>>, swallowed |-> {},
   rejections |-> <<>>]

\* every rejection of `fault` met a call of the run
AllHit(fault, r) ==
  DOMAIN fault = {r.rejections[k].at :
                    k \in {j \in 1..Len(r.rejections) : r.rejections[j].injected}}


(***************************************************************************)
(* Layout/style registry                                                   *)
(***************************************************************************)
FORMATS == {"NUMBER", "INTEGER", "PERCENT", "DATE_TIME", "TEXT", "DURATION"}

CONDITION_MAP ==
  [op \in {">", ">=", "<", "<=", "==", "between", "not_between"} |->
     CASE op = ">" -> "NUMBER_GREATER"
       [] op = ">=" -> "NUMBER_GREATER_THAN_EQ"
       [] op = "<" -> "NUMBER_LESS"
       [] op = "<=" -> "NUMBER_LESS_THAN_EQ"
       [] op = "==" -> "TEXT_EQ"
       [] op = "between" -> "NUMBER_BETWEEN"
       [] op = "not_between" -> "NUMBER_NOT_BETWEEN"]

(***************************************************************************)
(* Layout configuration (tab_config).  A key the dict lacks is Absent; a  *)
(* threshold key read with .get() and missing is PyNone.                   *)
(***************************************************************************)
NoThreshold == [present |-> FALSE]

Threshold(op, value, lo, hi) ==
  [present |-> TRUE, operator |-> op, value |-> value, min |-> lo, max |-> hi]

ColumnConf(key, name, format, threshold) ==
  [key |-> key, name |-> name, format |-> format, threshold |-> threshold]

Get(v, default) == IF v = Absent THEN default ELSE v

\* {v["name"]: v for k, v in columns_config.items()}: the last entry wins
HasConf(columns_config, col_name) ==
  \E k \in 1..Len(columns_config) : columns_config[k].name = col_name

ConfOf(columns_config, col_name) ==
  columns_config[Max({k \in 1..Len(columns_config) :
                        columns_config[k].name = col_name})]

(***************************************************************************)
(* SheetsService (src/services/sheets.py)                                  *)
(***************************************************************************)
\* the worksheet object _get_or_create_worksheet returns
Worksheet(s, name) ==
  IF name \in DOMAIN s THEN s[name]
  ELSE Sheet(NextSheetId(s), NewSheetRows, NewSheetCols)

_get_or_create_worksheet(name) ==
  << Call([op |-> "worksheet", name |-> name,
           try |-> 1, catch |-> {"WorksheetNotFound"}]),
     Call([op |-> "add_worksheet", name |-> name,
           rows |-> NewSheetRows, cols |-> NewSheetCols, when |-> 1]) >>

\* a faulty variant: one delete request too few
DeleteRequestsButLast(ws, rules_count) ==
  [k \in 1..rules_count - 1 |->
     [req |-> "deleteConditionalFormatRule", sheetId |-> ws.id, index |-> 0]]

\* a faulty variant: the k-th request deletes at position k, not at the head
DeleteRequestsByPosition(ws, rules_count) ==
  [k \in 1..rules_count |->
     [req |-> "deleteConditionalFormatRule", sheetId |-> ws.id, index |-> k - 1]]

DeleteRequests(ws, rules_count) ==
  [k \in 1..rules_count |->
     [req |-> "deleteConditionalFormatRule", sheetId |-> ws.id, index |-> 0]]

\* a slip: the unmerge and the rule cleanup are not guarded
_clean_sheet_metadata_fatal(name, ws) ==
  LET requests == DeleteRequests(ws, Len(ws.rules)) IN
  << Call([op |-> "clear", name |-> name]),
     Call([op |-> "unmerge_cells", name |-> name,
           range |-> Rect(1, 1, ws.rowCount, ColZ)]),
     Call([op |-> "fetch_sheet_metadata"]) >>
  \o (IF requests # <<>>
        THEN << Call([op |-> "batch_update", requests |-> requests]) >>
        ELSE <<>>)

_clean_sheet_metadata(name, ws) ==
  LET requests == DeleteRequests(ws, Len(ws.rules)) IN
  << Call([op |-> "clear", name |-> name]),
     Call([op |-> "unmerge_cells", name |-> name,
           range |-> Rect(1, 1, ws.rowCount, ColZ),
           try |-> 2, catch |-> AnyException]),
     Call([op |-> "fetch_sheet_metadata", try |-> 3, catch |-> AnyException]) >>
  \o (IF requests # <<>>
        THEN << Call([op |-> "batch_update", requests |-> requests,
                      try |-> 3, catch |-> AnyException]) >>
        ELSE <<>>)

\* gspread_dataframe's cell text of a DataFrame value
_cellrepr(v) ==
  CASE v.t = "str" -> Text(v.s)
    [] v.t = "num" -> Text(IntText(v.n))
    [] v.t = "ts" -> Text(DateText(v.k))
    [] OTHER -> Text(<<>>)

\* set_with_dataframe(ws, df, row=row, include_column_header=True, resize=True)
set_with_dataframe(name, df, row) ==
  << Call([op |-> "resize", name |-> name,
           rows |-> len(df) + 1 + (row - 1), cols |-> Len(df.columns)]),
     Call([op |-> "update_cells", name |-> name, at |-> <<row, 1>>,
           values |->
             << [j \in 1..Len(df.columns) |-> Text(<<df.columns[j]>>)] >>
             \o [i \in 1..len(df) |->
                   [j \in 1..Len(df.columns) |-> _cellrepr(df.rows[i][j])]]]) >>

RECURSIVE Collect(_, _, _)
\* the list a loop over i = 1..n builds: item(i) is <<>> or a one-element list
Collect(item(_), i, n) ==
  IF i > n THEN <<>> ELSE item(i) \o Collect(item, i + 1, n)

_apply_data_formats(name, df, columns_config, start_row_idx) ==
  LET item(i) ==
        LET col_name == df.columns[i] IN
        IF HasConf(columns_config, col_name)
           /\ Get(ConfOf(columns_config, col_name).format, "TEXT") \in FORMATS
          THEN LET data_start == start_row_idx + 1 IN
               << [range |-> Rect(data_start, i, data_start + len(df), i),
                   format |-> Get(ConfOf(columns_config, col_name).format, "TEXT")] >>
          ELSE <<>>
      batch == Collect(item, 1, Len(df.columns))
  IN  IF batch # <<>>
        THEN << Call([op |-> "batch_format", name |-> name, formats |-> batch]) >>
        ELSE <<>>

\* a slip: the header style is sent before the base style
_apply_visual_styles_header_first(name, df, start_row_idx) ==
  LET last_col_idx == Len(df.columns)
      last_row_idx == start_row_idx + len(df)
  IN  << Call([op |-> "batch_format", name |-> name,
               formats |->
                 << [range |-> Rect(start_row_idx, 1, start_row_idx, last_col_idx),
                     format |-> "HEADER_BLUE"],
                    [range |-> Rect(start_row_idx, 1, last_row_idx, last_col_idx),
                     format |-> "TABLE_BASE"] >>]) >>

_apply_visual_styles(name, df, start_row_idx) ==
  LET last_col_idx == Len(df.columns)
      last_row_idx == start_row_idx + len(df)
  IN  << Call([op |-> "batch_format", name |-> name,
               formats |->
                 << [range |-> Rect(start_row_idx, 1, last_row_idx, last_col_idx),
                     format |-> "TABLE_BASE"],
                    [range |-> Rect(start_row_idx, 1, start_row_idx, last_col_idx),
                     format |-> "HEADER_BLUE"] >>]) >>

\* the condition a threshold translates to: <<>> when it yields no rule
\* a faulty variant: the value is never quoted
ValStrBare(val, fmt) == PyStr(val)

\* f'"{val}"' if fmt == "TEXT" else str(val)
ValStr(val, fmt) ==
  IF fmt = "TEXT" THEN <<"\"">> \o PyStr(val) \o <<"\"">> ELSE PyStr(val)

\* the two bounds of a range condition, and a faulty variant that swaps them
RangeValuesSwapped(threshold) ==
  << [userEnteredValue |-> PyStr(threshold.max)],
     [userEnteredValue |-> PyStr(threshold.min)] >>

RangeValues(threshold) ==
  << [userEnteredValue |-> PyStr(threshold.min)],
     [userEnteredValue |-> PyStr(threshold.max)] >>

ConditionOf(conf, cell) ==
  LET threshold == conf.threshold
      operator == Get(threshold.operator, "")
  IN  IF operator = "!="
        THEN LET val == threshold.value
                 fmt == Get(conf.format, "TEXT")
                 val_str == ValStr(val, fmt)
                 formula == <<"=TRIM(", col_letter(cell[2])>> \o IntText(cell[1])
                            \o <<")<>">> \o val_str
             IN  << [type |-> "CUSTOM_FORMULA",
                     values |-> << [userEnteredValue |-> formula] >>] >>
      ELSE IF operator \in DOMAIN CONDITION_MAP
        THEN << [type |-> CONDITION_MAP[operator],
                 values |->
                   IF operator \in {"between", "not_between"}
                     THEN RangeValues(threshold)
                     ELSE << [userEnteredValue |-> PyStr(threshold.value)] >>] >>
      ELSE <<>>

\* the addConditionalFormatRule requests, in the order they are sent
RuleRequests(ws, df, columns_config, start_row_idx) ==
  LET row_start == start_row_idx + 1
      row_end == start_row_idx + len(df)
      item(i) ==
        LET col_name == df.columns[i] IN
        IF HasConf(columns_config, col_name)
           /\ ConfOf(columns_config, col_name).threshold.present
          THEN LET conf == ConfOf(columns_config, col_name)
                   grid_range ==
                     a1_range_to_grid_range(Rect(row_start, i, row_end, i), ws.id)
                   cond == ConditionOf(conf, <<row_start, i>>)
               IN  IF cond # <<>>
                     THEN << [req |-> "addConditionalFormatRule",
                              rule |-> [ranges |-> <<grid_range>>,
                                        booleanRule |->
                                          [condition |-> cond[1],
                                           format |-> "ALERT_RED"]],
                              index |-> 0] >>
                     ELSE <<>>
          ELSE <<>>
  IN  Collect(item, 1, Len(df.columns))

\* a faulty variant: the batch is sent even when it is empty
_apply_conditional_rules_unconditional(ws, df, columns_config, start_row_idx) ==
  << Call([op |-> "batch_update",
           requests |-> RuleRequests(ws, df, columns_config, start_row_idx)]) >>

_apply_conditional_rules(ws, df, columns_config, start_row_idx) ==
  LET rules == RuleRequests(ws, df, columns_config, start_row_idx) IN
  IF rules # <<>>
    THEN << Call([op |-> "batch_update", requests |-> rules]) >>
    ELSE <<>>

\* the remote calls of update_snapshot on a non-empty DataFrame
\* a slip: the title is written before the sheet is reset
SnapshotCallsResetLate(s, tab_config, df0, time_chile) ==
  LET df == StripFrame(df0)
      tab_name == tab_config.tab_name
      ws == Worksheet(s, tab_name)
  IN  _get_or_create_worksheet(tab_name)
      \o << Call([op |-> "merge_cells", name |-> tab_name, range |-> Rect(1, 1, 1, 2)]),
            Call([op |-> "update", name |-> tab_name, at |-> <<1, 1>>,
                  values |-> << <<Text(<<Get(tab_config.title, "Reporte")>>)>> >>]),
            Call([op |-> "format", name |-> tab_name, range |-> Rect(1, 1, 1, 1),
                  format |-> "HEADER_MAIN"]) >>
      \o _clean_sheet_metadata(tab_name, ws)
      \o <<
            Call([op |-> "update", name |-> tab_name, at |-> <<2, 1>>,
                  values |-> << <<Text(<<"Ultima actualizacion (Chile)">>)>>,
                                <<Text(<<"Tiempo transcurrido:">>)>> >>]),
            Call([op |-> "update", name |-> tab_name, at |-> <<2, 2>>,
                  values |-> << <<Text(<<time_chile>>)>> >>]),
            Call([op |-> "update_acell", name |-> tab_name, at |-> <<3, 2>>,
                  values |-> << <<Text(<<"=", "NOW()-B2">>)>> >>]),
            Call([op |-> "format", name |-> tab_name, range |-> Rect(2, 1, 3, 1),
                  format |-> "METADATA_LABEL"]),
            Call([op |-> "format", name |-> tab_name, range |-> Rect(2, 2, 3, 2),
                  format |-> "METADATA_VALUE"]),
            Call([op |-> "format", name |-> tab_name, range |-> Rect(2, 2, 2, 2),
                  format |-> "DATE_TIME"]),
            Call([op |-> "format", name |-> tab_name, range |-> Rect(3, 2, 3, 2),
                  format |-> "DURATION"]) >>
      \o set_with_dataframe(tab_name, df, start_row)
      \o _apply_data_formats(tab_name, df, tab_config.columns, start_row)
      \o _apply_visual_styles(tab_name, df, start_row)
      \o _apply_conditional_rules(ws, df, tab_config.columns, start_row)

SnapshotCalls(s, tab_config, df0, time_chile) ==
  LET df == StripFrame(df0)
      tab_name == tab_config.tab_name
      ws == Worksheet(s, tab_name)
  IN  _get_or_create_worksheet(tab_name)
      \o _clean_sheet_metadata(tab_name, ws)
      \o << Call([op |-> "merge_cells", name |-> tab_name, range |-> Rect(1, 1, 1, 2)]),
            Call([op |-> "update", name |-> tab_name, at |-> <<1, 1>>,
                  values |-> << <<Text(<<Get(tab_config.title, "Reporte")>>)>> >>]),
            Call([op |-> "format", name |-> tab_name, range |-> Rect(1, 1, 1, 1),
                  format |-> "HEADER_MAIN"]),
            Call([op |-> "update", name |-> tab_name, at |-> <<2, 1>>,
                  values |-> << <<Text(<<"Ultima actualizacion (Chile)">>)>>,
                                <<Text(<<"Tiempo transcurrido:">>)>> >>]),
            Call([op |-> "update", name |-> tab_name, at |-> <<2, 2>>,
                  values |-> << <<Text(<<time_chile>>)>> >>]),
            Call([op |-> "update_acell", name |-> tab_name, at |-> <<3, 2>>,
                  values |-> << <<Text(<<"=", "NOW()-B2">>)>> >>]),
            Call([op |-> "format", name |-> tab_name, range |-> Rect(2, 1, 3, 1),
                  format |-> "METADATA_LABEL"]),
            Call([op |-> "format", name |-> tab_name, range |-> Rect(2, 2, 3, 2),
                  format |-> "METADATA_VALUE"]),
            Call([op |-> "format", name |-> tab_name, range |-> Rect(2, 2, 2, 2),
                  format |-> "DATE_TIME"]),
            Call([op |-> "format", name |-> tab_name, range |-> Rect(3, 2, 3, 2),
                  format |-> "DURATION"]) >>
      \o set_with_dataframe(tab_name, df, start_row)
      \o _apply_data_formats(tab_name, df, tab_config.columns, start_row)
      \o _apply_visual_styles(tab_name, df, start_row)
      \o _apply_conditional_rules(ws, df, tab_config.columns, start_row)

\* a slip: the emptiness guard is missing
update_snapshot_unguarded(s, tab_config, df, time_chile, time_utc, fault) ==
  Run(s, SnapshotCalls(s, tab_config, df, time_chile), fault)

update_snapshot(s, tab_config, df, time_chile, time_utc, fault) ==
  IF empty(df)
    THEN Returned(s)
    ELSE Run(s, SnapshotCalls(s, tab_config, df, time_chile), fault)

\* the value append_history sends for a DataFrame value: datetime columns
\* are formatted as text, a missing value becomes None (JSON null)
HistoryPayload(df) ==
  [i \in 1..len(df) |->
     [j \in 1..Len(df.columns) |->
        LET v == df.rows[i][j] IN
        CASE v.t \in {"nan", "none"} -> Null
          [] v.t = "ts" /\ ColumnDtype(df, j) = "datetime64" -> Text(DateText(v.k))
          [] v.t = "ts" -> [t |-> "timestamp", k |-> v.k]
          [] v.t = "num" -> Number(v.n)
          [] OTHER -> Text(v.s)]]

\* a faulty variant: the header is written whatever cell A1 holds
HistoryCallsAlwaysHeader(s, hist_tab_name, df) ==
  LET ws == Worksheet(s, hist_tab_name) IN
  _get_or_create_worksheet(hist_tab_name)
  \o << Call([op |-> "get_values", name |-> hist_tab_name,
              range |-> Rect(1, 1, 1, 1)]) >>
  \o set_with_dataframe(hist_tab_name, df, 1)
  \o << Call([op |-> "format", name |-> hist_tab_name,
              range |-> Rect(1, 1, 1, ws.colCount),
              format |-> "HEADER_BLUE"]) >>

\* the remote calls of append_history once its two guards have passed
HistoryCalls(s, hist_tab_name, df) ==
  LET ws == Worksheet(s, hist_tab_name)
      needs_header == <<1, 1>> \notin DOMAIN ws.cells
  IN  _get_or_create_worksheet(hist_tab_name)
      \o << Call([op |-> "get_values", name |-> hist_tab_name,
                  range |-> Rect(1, 1, 1, 1)]) >>
      \o (IF needs_header
            THEN set_with_dataframe(hist_tab_name, df, 1)
                 \o << Call([op |-> "format", name |-> hist_tab_name,
                             range |-> Rect(1, 1, 1, ws.colCount),
                             format |-> "HEADER_BLUE"]) >>
            ELSE << Call([op |-> "append_rows", name |-> hist_tab_name,
                          values |-> HistoryPayload(df)]) >>)

\* a faulty variant: the history_tab guard is missing
append_history_unguarded(s, tab_config, df, time_chile, fault) ==
  IF empty(df)
    THEN Returned(s)
    ELSE Run(s, HistoryCalls(s, Get(tab_config.history_tab, "Historial"), df), fault)

append_history(s, tab_config, df, time_chile, fault) ==
  IF empty(df) \/ tab_config.history_tab \in {Absent, ""}
    THEN Returned(s)
    ELSE Run(s, HistoryCalls(s, tab_config.history_tab, df), fault)

(***************************************************************************)
(* SheetsService of src2 (src2/services/sheets.py)                         *)
(***************************************************************************)
FORMATS_src2 == {"NUMBER", "PERCENT", "DATE_TIME", "TEXT"}

\* the bare except of src2 catches every failure of the lookup
_get_or_create_worksheet_src2(name) ==
  << Call([op |-> "worksheet", name |-> name,
           try |-> 1, catch |-> AnyException]),
     Call([op |-> "add_worksheet", name |-> name,
           rows |-> NewSheetRows, cols |-> NewSheetCols, when |-> 1]) >>

_apply_formats(name, df, columns_config, start_row_idx) ==
  LET item(i) ==
        LET col_name == df.columns[i] IN
        IF HasConf(columns_config, col_name)
           /\ Get(ConfOf(columns_config, col_name).format, "TEXT") \in FORMATS_src2
          THEN LET data_start == start_row_idx + 1 IN
               << [range |-> Rect(data_start, i, data_start + len(df), i),
                   format |-> Get(ConfOf(columns_config, col_name).format, "TEXT")] >>
          ELSE <<>>
      batch == Collect(item, 1, Len(df.columns))
  IN  IF batch # <<>>
        THEN << Call([op |-> "batch_format", name |-> name, formats |-> batch]) >>
        ELSE <<>>

\* ws.merge_cells(...) ; ws.format(..., {"verticalAlignment": "MIDDLE"})
\* a faulty variant: the last row is taken as exclusive, one row too far
MergeRunInclusive(name, first_row, last_row, col_idx) ==
  << Call([op |-> "merge_cells", name |-> name,
           range |-> Rect(first_row, col_idx, last_row + 1, col_idx)]),
     Call([op |-> "format", name |-> name,
           range |-> Rect(first_row, col_idx, last_row + 1, col_idx),
           format |-> "MIDDLE"]) >>

\* ws.merge_cells(range) and the centring of the merged range
MergeRun(name, first_row, last_row, col_idx) ==
  << Call([op |-> "merge_cells", name |-> name,
           range |-> Rect(first_row, col_idx, last_row, col_idx)]),
     Call([op |-> "format", name |-> name,
           range |-> Rect(first_row, col_idx, last_row, col_idx),
           format |-> "MIDDLE"]) >>

\* the for loop of _merge_cells and the merge of the last run: `values` is
\* 1-based here, `start` and `i` are the 0-based indices of the code
RECURSIVE MergeLoop(_, _, _, _, _, _)
MergeLoop(name, values, col_idx, data_offset, start, i) ==
  IF i >= Len(values)
    THEN IF Len(values) - start > 1
           THEN MergeRun(name, start + data_offset,
                         Len(values) + data_offset - 1, col_idx)
           ELSE <<>>
  ELSE IF ~PyEq(values[i + 1], values[start + 1])
    THEN (IF i - start > 1
            THEN MergeRun(name, start + data_offset, i + data_offset - 1, col_idx)
            ELSE <<>>)
         \o MergeLoop(name, values, col_idx, data_offset, i, i + 1)
  ELSE MergeLoop(name, values, col_idx, data_offset, start, i + 1)

ColumnIndex(df, col_name) ==
  CHOOSE j \in 1..Len(df.columns) : df.columns[j] = col_name

_merge_cells(name, df, col_name, start_row_idx) ==
  IF \A j \in 1..Len(df.columns) : df.columns[j] # col_name
    THEN <<>>
    ELSE LET col_idx == ColumnIndex(df, col_name)
             values == Column(df, col_idx)
             data_offset == start_row_idx + 1
         IN  MergeLoop(name, values, col_idx, data_offset, 0, 1)

\* tab_config["columns"][tab_config["merge_column"]]["name"]
MergeColumnName(tab_config) ==
  LET k == CHOOSE k \in 1..Len(tab_config.columns) :
             tab_config.columns[k].key = tab_config.merge_column
  IN  tab_config.columns[k].name

SnapshotCalls_src2(s, tab_config, df, time_chile, time_utc) ==
  LET tab_name == tab_config.tab_name IN
  _get_or_create_worksheet_src2(tab_name)
  \o << Call([op |-> "clear", name |-> tab_name]),
        Call([op |-> "update", name |-> tab_name, at |-> <<1, 1>>,
              values |->
                << <<Text(<<"Titulo">>), Text(<<Get(tab_config.title, "Reporte")>>)>>,
                   <<Text(<<"Ultima actualizacion (Chile)">>), Text(<<time_chile>>)>>,
                   <<Text(<<"Ultima actualizacion (UTC)">>), Text(<<time_utc>>)>> >>]),
        Call([op |-> "format", name |-> tab_name, range |-> Rect(1, 1, 3, 1),
              format |-> "BOLD"]) >>
  \o set_with_dataframe(tab_name, df, start_row)
  \o _apply_formats(tab_name, df, tab_config.columns, start_row)
  \o (IF tab_config.merge_column # Absent
        THEN _merge_cells(tab_name, df, MergeColumnName(tab_config), start_row)
        ELSE <<>>)

update_snapshot_src2(s, tab_config, df, time_chile, time_utc, fault) ==
  IF empty(df)
    THEN Returned(s)
    ELSE Run(s, SnapshotCalls_src2(s, tab_config, df, time_chile, time_utc), fault)

\* set_with_dataframe(ws, df, row=1): the grid only grows to hold the frame
set_with_dataframe_min(name, ws, df, row) ==
  LET y == len(df) + 1 + (row - 1)
      x == Len(df.columns)
  IN  (IF y > ws.rowCount \/ x > ws.colCount
         THEN << Call([op |-> "resize", name |-> name,
                       rows |-> IF y > ws.rowCount THEN y ELSE ws.rowCount,
                       cols |-> IF x > ws.colCount THEN x ELSE ws.colCount]) >>
         ELSE <<>>)
      \o << set_with_dataframe(name, df, row)[2] >>

\* a faulty variant: the extraction column is not inserted
WithoutExtractionDate(df, time_chile) == df

\* df_history.insert(0, "Fecha Extraccion", time_chile)
WithExtractionDate(df, time_chile) ==
  DataFrame(<<"Fecha Extraccion">> \o df.columns,
            [i \in 1..len(df) |-> <<Str(<<time_chile>>)>> \o df.rows[i]])

\* df_history.astype(str).values.tolist()
AsTypeStr(df) ==
  [i \in 1..len(df) |->
     [j \in 1..Len(df.columns) |-> Text(PyStr(df.rows[i][j]))]]

HistoryCalls_src2(s, hist_tab_name, df, time_chile) ==
  LET df_history == WithExtractionDate(df, time_chile)
      ws == Worksheet(s, hist_tab_name)
  IN  _get_or_create_worksheet_src2(hist_tab_name)
      \o << Call([op |-> "get_all_values", name |-> hist_tab_name]) >>
      \o (IF DOMAIN ws.cells = {}
            THEN set_with_dataframe_min(hist_tab_name, ws, df_history, 1)
            ELSE << Call([op |-> "append_rows_raw", name |-> hist_tab_name,
                          values |-> AsTypeStr(df_history)]) >>)

append_history_src2(s, tab_config, df, time_chile, fault) ==
  IF empty(df) \/ tab_config.history_tab \in {Absent, ""}
    THEN Returned(s)
    ELSE Run(s, HistoryCalls_src2(s, tab_config.history_tab, df, time_chile), fault)

(***************************************************************************)
(* Inputs of the model                                                     *)
(***************************************************************************)
SnapshotTab == "Servidores"

OtherTab == "Otra"

ManualRule(sheetId, k) ==
  [ranges |-> << a1_range_to_grid_range(Rect(k, 1, k, 1), sheetId) >>,
   booleanRule |-> [condition |-> [type |-> "NOT_BLANK", values |-> <<>>],
                    format |-> "MANUAL"]]

\* a sheet somebody else maintains, with rules of its own
OtherSheet ==
  [Sheet(1, 10, 5) EXCEPT !.rules = <<ManualRule(1, 1), ManualRule(1, 2)>>]

\* the snapshot tab as earlier runs, manual edits or other automations left it
DirtySheet ==
  [Sheet(2, 12, 30) EXCEPT
     !.cells = (<<1, 1>> :> Text(<<"viejo">>)) @@ (<<9, 3>> :> Number(7)),
     !.merges = {Rect(7, 1, 8, 1), Rect(1, 27, 2, 27)},
     !.rules = <<ManualRule(2, 1), ManualRule(2, 2), ManualRule(2, 3)>>]

InitialSheets ==
  { (OtherTab :> OtherSheet),
    (OtherTab :> OtherSheet) @@ (SnapshotTab :> Sheet(2, NewSheetRows, NewSheetCols)),
    (OtherTab :> OtherSheet) @@ (SnapshotTab :> DirtySheet) }

Layout(title, history_tab, columns, merge_column) ==
  [tab_name |-> SnapshotTab, title |-> title, history_tab |-> history_tab,
   columns |-> columns, merge_column |-> merge_column]

Layouts ==
  { Layout("Servidores", Absent,
           << ColumnConf("name", "Servidor", "TEXT", NoThreshold),
              ColumnConf("cpu", "CPU", "NUMBER",
                         Threshold(">", Num(90), PyNone, PyNone)) >>, Absent),
    Layout(Absent, Absent,
           << ColumnConf("name", "Servidor", Absent,
                         Threshold("!=", Str(<<"a">>), PyNone, PyNone)),
              ColumnConf("cpu", "CPU", "RARO",
                         Threshold("between", PyNone, Num(10), Num(90))) >>, Absent),
    Layout("Servidores", Absent,
           << ColumnConf("name", "Servidor", "TEXT", NoThreshold),
              ColumnConf("cpu", "CPU", "INTEGER",
                         Threshold("~", Num(90), PyNone, PyNone)) >>, Absent) }

SnapshotRows ==
  { <<Str(<<" ", "a">>), Num(95)>>, <<Str(<<"b">>), NaN>> }

RECURSIVE SeqsUpTo(_, _)
SeqsUpTo(S, n) ==
  IF n = 0 THEN {<<>>}
  ELSE LET shorter == SeqsUpTo(S, n - 1) IN
       shorter \cup {Append(q, x) : q \in {r \in shorter : Len(r) = n - 1}, x \in S}

Frames(cols, RowSet, n) == {DataFrame(cols, rows) : rows \in SeqsUpTo(RowSet, n)}

SnapshotFrames == Frames(<<"Servidor", "CPU">>, SnapshotRows, MaxRows)

NoFrame == DataFrame(<<>>, <<>>)

Times == {"t1"}

NoOp == [op |-> "none"]

(***************************************************************************)
(* The state machine.  Each action is one call of a method of             *)
(* SheetsService; `last` records the call and its outcome.                 *)
(***************************************************************************)
Record(op, tab_config, df, time_chile, fault, r) ==
  [op |-> op, tab_config |-> tab_config, df |-> df, time_chile |-> time_chile,
   fault |-> fault, raised |-> r.raised, calls |-> r.calls,
   swallowed |-> r.swallowed, rejections |-> r.rejections]

Init ==
  /\ sheets \in InitialSheets
  /\ last = NoOp

UpdateSnapshotOver(LayoutSet, FrameSet, FaultSet) ==
  \E tab_config \in LayoutSet, df \in FrameSet, time_chile \in Times,
     fault \in FaultSet :
    \E r \in {update_snapshot(sheets, tab_config, df, time_chile, "utc", fault)} :
      /\ AllHit(fault, r)
      /\ sheets' = r.sheets
      /\ last' = Record("update_snapshot", tab_config, df, time_chile, fault, r)

UpdateSnapshotSrc2Over(LayoutSet, FrameSet, FaultSet) ==
  \E tab_config \in LayoutSet, df \in FrameSet, time_chile \in Times,
     fault \in FaultSet :
    \E r \in {update_snapshot_src2(sheets, tab_config, df, time_chile, "utc", fault)} :
      /\ AllHit(fault, r)
      /\ sheets' = r.sheets
      /\ last' = Record("update_snapshot_src2", tab_config, df, time_chile, fault, r)

\* the history sheet holds at most MaxHistoryRows filled rows
HistoryFits(s, tab_config) ==
  tab_config.history_tab \in DOMAIN s
    => LastRow(s[tab_config.history_tab]) <= MaxHistoryRows

AppendHistoryOver(LayoutSet, FrameSet, FaultSet) ==
  \E tab_config \in LayoutSet, df \in FrameSet, time_chile \in Times,
     fault \in FaultSet :
    \E r \in {append_history(sheets, tab_config, df, time_chile, fault)} :
      /\ AllHit(fault, r)
      /\ HistoryFits(r.sheets, tab_config)
      /\ sheets' = r.sheets
      /\ last' = Record("append_history", tab_config, df, time_chile, fault, r)

AppendHistorySrc2Over(LayoutSet, FrameSet, FaultSet) ==
  \E tab_config \in LayoutSet, df \in FrameSet, time_chile \in Times,
     fault \in FaultSet :
    \E r \in {append_history_src2(sheets, tab_config, df, time_chile, fault)} :
      /\ AllHit(fault, r)
      /\ HistoryFits(r.sheets, tab_config)
      /\ sheets' = r.sheets
      /\ last' = Record("append_history_src2", tab_config, df, time_chile, fault, r)

(***************************************************************************)
(* Spec: repeated snapshot publishes, every remote call accepted           *)
(***************************************************************************)
UpdateSnapshot == UpdateSnapshotOver(Layouts, SnapshotFrames, {NoFault})

Next == UpdateSnapshot

Spec == Init /\ [][Next]_vars

\* the requests of the batch_update calls among `calls`, in order
RECURSIVE RequestsOf(_)
RequestsOf(calls) ==
  IF calls = <<>> THEN <<>>
  ELSE (IF Head(calls).op = "batch_update" THEN Head(calls).requests ELSE <<>>)
       \o RequestsOf(Tail(calls))

DeletesOf(calls) ==
  SelectSeq(RequestsOf(calls), LAMBDA q : q.req = "deleteConditionalFormatRule")

AppendsOf(calls) == SelectSeq(calls, LAMBDA c : c.op = "append_rows")

AddsOf(calls) ==
  SelectSeq(RequestsOf(calls), LAMBDA q : q.req = "addConditionalFormatRule")

Published == last.op = "update_snapshot" /\ ~empty(last.df) /\ ~last.raised

\* C1: publishing the same non-empty dataset with the same layout and times
\* once more, right after a publish that returned normally, changes neither
\* the cell contents, nor the merged regions, nor the list of
\* conditional-format rules of the target sheet, whatever the sheet held
\* before the first publish.
C1_SnapshotIdempotent ==
  Published =>
    LET again == update_snapshot(sheets, last.tab_config, last.df,
                                 last.time_chile, "utc", NoFault).sheets[SnapshotTab]
        now == sheets[SnapshotTab]
    IN  /\ again.cells = now.cells
        /\ again.merges = now.merges
        /\ again.rules = now.rules

\* a publish of two rows that left two rules, one merged region and cells
C1_Witness ==
  /\ Published
  /\ len(last.df) = 2
  /\ Len(sheets[SnapshotTab].rules) = 2
  /\ sheets[SnapshotTab].merges = {Rect(1, 1, 1, 2)}
  /\ <<8, 1>> \in DOMAIN sheets[SnapshotTab].cells

RulesBefore(s, name) == IF name \in DOMAIN s THEN s[name].rules ELSE <<>>

\* C3: a publish of a non-empty dataset on a sheet holding r >= 0 rules
\* sends exactly r rule deletions, each for the target sheet at index 0;
\* none of the r rules is left afterwards (the sheet holds just the rules
\* this publish adds) and the rules of every other sheet are as before.
C3_ResetDeletesEveryRule ==
  [][ (last'.op = "update_snapshot" /\ ~empty(last'.df) /\ ~last'.raised) =>
        LET before == RulesBefore(sheets, SnapshotTab)
            dels == DeletesOf(last'.calls)
        IN  /\ Len(dels) = Len(before)
            /\ \A k \in 1..Len(dels) :
                 dels[k].index = 0 /\ dels[k].sheetId = sheets'[SnapshotTab].id
            /\ before # <<>> =>
                 Exec(sheets, [op |-> "batch_update", requests |-> dels])
                   .sheets[SnapshotTab].rules = <<>>
            /\ Len(sheets'[SnapshotTab].rules) = Len(AddsOf(last'.calls))
            /\ \A n \in DOMAIN sheets \ {SnapshotTab} :
                 sheets'[n].rules = sheets[n].rules ]_vars

\* a publish that sent three deletions while another sheet kept its two rules
C3_Witness ==
  /\ Published
  /\ Len(DeletesOf(last.calls)) = 3
  /\ Len(sheets[SnapshotTab].rules) = 1
  /\ Len(sheets[OtherTab].rules) = 2

(***************************************************************************)
(* SpecGuard: publishes of both SheetsService versions, empty datasets     *)
(* among the inputs                                                        *)
(***************************************************************************)
MergeLayout ==
  Layout("Servidores", Absent,
         << ColumnConf("name", "Servidor", "TEXT", NoThreshold),
            ColumnConf("cpu", "CPU", "NUMBER",
                       Threshold(">", Num(90), PyNone, PyNone)) >>, "name")

GuardFrames == SnapshotFrames \cup {NoFrame}

PublishSrc == UpdateSnapshotOver({MergeLayout}, GuardFrames, {NoFault})

PublishSrc2 == UpdateSnapshotSrc2Over({MergeLayout}, GuardFrames, {NoFault})

NextGuard == PublishSrc \/ PublishSrc2

SpecGuard == Init /\ [][NextGuard]_vars

\* C2: a publish (either version of update_snapshot) of an empty dataset
\* issues no remote call and leaves the whole spreadsheet as it was: no
\* sheet is created, cleared, written or formatted.
C2_EmptyDatasetTouchesNothing ==
  [][ (last'.op \in {"update_snapshot", "update_snapshot_src2"} /\ empty(last'.df)) =>
        (sheets' = sheets /\ last'.calls = <<>> /\ ~last'.raised) ]_vars

\* an empty dataset was published while the target sheet does not exist
C2_Witness ==
  /\ last.op \in {"update_snapshot", "update_snapshot_src2"}
  /\ empty(last.df)
  /\ last.df.columns # <<>>
  /\ SnapshotTab \notin DOMAIN sheets

(***************************************************************************)
(* SpecMerge: publishes of src2 with a merge column                        *)
(***************************************************************************)
MergeValues == {Str(<<"a">>), Str(<<"b">>), NaN}

MergeFrames ==
  Frames(<<"Servidor", "CPU">>, {<<v, Num(5)>> : v \in MergeValues}, MaxMergeRows)

PublishMerged == UpdateSnapshotSrc2Over({MergeLayout}, MergeFrames, {NoFault})

NextMerge == PublishMerged

InitMerge ==
  /\ sheets = (OtherTab :> OtherSheet)
  /\ last = NoOp

SpecMerge == InitMerge /\ [][NextMerge]_vars

MergesOf(calls) == SelectSeq(calls, LAMBDA c : c.op = "merge_cells")

\* the k values from 0-based index i on are a maximal run of equal values
IsMaximalRun(values, i, k) ==
  /\ k >= 2 /\ i + k <= Len(values)
  /\ \A j \in 1..k : PyEq(values[i + j], values[i + 1])
  /\ i > 0 => ~PyEq(values[i], values[i + 1])
  /\ i + k < Len(values) => ~PyEq(values[i + k + 1], values[i + 1])

PublishedMerged ==
  /\ last.op = "update_snapshot_src2" /\ ~empty(last.df) /\ ~last.raised
  /\ last.tab_config.merge_column # Absent

\* C4: with merge_column configured, the merges update_snapshot (src2)
\* issues are exactly the maximal runs of at least two equal adjacent values
\* of that column: the run of k values from 0-based data index i on is merged
\* once, as rows 7+i .. 7+i+k-1 of that column, and nothing else is merged.
C4_MergesAreTheMaximalRuns ==
  PublishedMerged =>
    LET col == ColumnIndex(last.df, MergeColumnName(last.tab_config))
        values == Column(last.df, col)
        m == MergesOf(last.calls)
        region(i, k) == Rect(7 + i, col, 7 + i + k - 1, col)
    IN  /\ \A i \in 0..Len(values), k \in 2..Len(values) :
             IsMaximalRun(values, i, k) =>
               Cardinality({j \in 1..Len(m) : m[j].range = region(i, k)}) = 1
        /\ \A j \in 1..Len(m) :
             \E i \in 0..Len(values), k \in 2..Len(values) :
               IsMaximalRun(values, i, k) /\ m[j].range = region(i, k)

\* a column a, a, b was published: rows 7..8 were merged, row 9 was not
C4_Witness ==
  /\ PublishedMerged
  /\ Column(last.df, 1) = <<Str(<<"a">>), Str(<<"a">>), Str(<<"b">>)>>
  /\ Len(MergesOf(last.calls)) = 1
  /\ Rect(7, 1, 8, 1) \in sheets[SnapshotTab].merges

(***************************************************************************)
(* SpecHistory: history appends of src, every remote call accepted         *)
(***************************************************************************)
HistoryTab == "Historial"

HistoryColumns == <<"Servidor", "Fecha", "CPU">>

HistoryConf ==
  << ColumnConf("name", "Servidor", "TEXT", NoThreshold),
     ColumnConf("ts", "Fecha", "DATE_TIME", NoThreshold),
     ColumnConf("cpu", "CPU", "NUMBER", NoThreshold) >>

HistoryLayouts ==
  {Layout("Servidores", h, HistoryConf, Absent) : h \in {HistoryTab, Absent, ""}}

\* every row carries the server name; date and CPU may be missing
HistoryRows ==
  { <<Str(<<"a">>), Ts(1), Num(5)>>, <<Str(<<"b">>), NaN, NaN>> }

HistoryFrames == Frames(HistoryColumns, HistoryRows, MaxRows)

HeaderCells(cols) == [a \in {1} \X (1..Len(cols)) |-> Text(<<cols[a[2]]>>)]

HeaderOnlySheet == [Sheet(3, 1, 3) EXCEPT !.cells = HeaderCells(HistoryColumns)]

\* a history sheet whose cell A1 was emptied by hand, with a row below
HeadlessSheet ==
  [Sheet(3, 2, 3) EXCEPT
     !.cells = (<<1, 2>> :> Text(<<"Fecha">>)) @@ (<<2, 1>> :> Text(<<"z">>))]

InitHistory ==
  /\ sheets \in { (OtherTab :> OtherSheet),
                  (OtherTab :> OtherSheet) @@ (HistoryTab :> HeaderOnlySheet),
                  (OtherTab :> OtherSheet) @@ (HistoryTab :> HeadlessSheet) }
  /\ last = NoOp

AppendHistory == AppendHistoryOver(HistoryLayouts, HistoryFrames, {NoFault})

NextHistory == AppendHistory

SpecHistory == InitHistory /\ [][NextHistory]_vars

HistoryOn(l) == l.tab_config.history_tab \notin {Absent, ""}

FilledRows(ws) == {a[1] : a \in DOMAIN ws.cells}

\* the cell a history sheet shows for a dataset value (none when missing)
ShownAs(v) ==
  CASE v.t = "str" -> Text(v.s)
    [] v.t = "num" -> Number(v.n)
    [] v.t = "ts" -> Date(v.k)
    [] OTHER -> Blank

\* row `at` of the sheet holds exactly the values of `row`
RowHolds(ws, at, row) ==
  \A j \in 1..ws.colCount + Len(row) :
    IF j <= Len(row) /\ ShownAs(row[j]) # Blank
      THEN <<at, j>> \in DOMAIN ws.cells /\ ws.cells[<<at, j>>] = ShownAs(row[j])
      ELSE <<at, j>> \notin DOMAIN ws.cells

HeaderIs(ws, cols) ==
  \A j \in 1..ws.colCount + Len(cols) :
    IF j <= Len(cols)
      THEN <<1, j>> \in DOMAIN ws.cells /\ ws.cells[<<1, j>>] = Text(<<cols[j]>>)
      ELSE <<1, j>> \notin DOMAIN ws.cells

Appended(l) ==
  l.op = "append_history" /\ ~empty(l.df) /\ HistoryOn(l) /\ ~l.raised

\* C5: an append of n rows to a history sheet whose header row is the
\* dataset's column names raises the number of filled rows by exactly n,
\* leaves every cell at or above the previous last row as it was, and puts
\* the n rows, in dataset order, right below the previous last row (so m
\* appends leave header + n_1 + .. + n_m rows in append order).
C5_AppendAddsExactlyNRows ==
  [][ (Appended(last') /\ HistoryTab \in DOMAIN sheets
       /\ HeaderIs(sheets[HistoryTab], last'.df.columns)) =>
        LET old == sheets[HistoryTab]
            new == sheets'[HistoryTab]
            n == len(last'.df)
        IN  /\ Cardinality(FilledRows(new)) = Cardinality(FilledRows(old)) + n
            /\ \A a \in DOMAIN old.cells :
                 a \in DOMAIN new.cells /\ new.cells[a] = old.cells[a]
            /\ \A a \in DOMAIN new.cells : a[1] <= LastRow(old) => a \in DOMAIN old.cells
            /\ LastRow(new) = LastRow(old) + n
            /\ \A i \in 1..n : RowHolds(new, LastRow(old) + i, last'.df.rows[i]) ]_vars

\* the third filled row of the sheet came from a second append
C5_Witness ==
  /\ Appended(last)
  /\ len(last.df) = 1
  /\ AppendsOf(last.calls) # <<>>
  /\ LastRow(sheets[HistoryTab]) = 3
  /\ HeaderIs(sheets[HistoryTab], HistoryColumns)

\* C7: append_history with an empty dataset, or with a layout whose
\* history_tab is absent or empty, issues no remote call and leaves the
\* whole spreadsheet as it was.
C7_AppendGuards ==
  [][ (last'.op = "append_history" /\ (empty(last'.df) \/ ~HistoryOn(last'))) =>
        (sheets' = sheets /\ last'.calls = <<>> /\ ~last'.raised) ]_vars

\* a non-empty dataset met an empty history_tab and no history sheet exists
C7_Witness ==
  /\ last.op = "append_history"
  /\ ~empty(last.df)
  /\ last.tab_config.history_tab = ""
  /\ DOMAIN sheets = {OtherTab}

\* C8: when append_history is invoked a second time in the same run (same
\* layout, same dataset, same run time), the second invocation adds no row:
\* each dataset row is in the history sheet once.
C8_RerunAddsNoRow ==
  [][ (Appended(last) /\ Appended(last')
       /\ last'.tab_config = last.tab_config /\ last'.df = last.df
       /\ last'.time_chile = last.time_chile) =>
        sheets'[HistoryTab].cells = sheets[HistoryTab].cells ]_vars

(***************************************************************************)
(* SpecHistoryBoth: history appends of src and of src2 on one spreadsheet  *)
(***************************************************************************)
BlankSheet == Sheet(3, NewSheetRows, NewSheetCols)

InitHistoryBoth ==
  /\ sheets \in { (OtherTab :> OtherSheet),
                  (OtherTab :> OtherSheet) @@ (HistoryTab :> BlankSheet),
                  (OtherTab :> OtherSheet) @@ (HistoryTab :> HeadlessSheet) }
  /\ last = NoOp

\* the layouts that name a history sheet
HistoryOnLayouts == {l \in HistoryLayouts : l.history_tab = HistoryTab}

AppendHistorySrc == AppendHistoryOver(HistoryOnLayouts, HistoryFrames, {NoFault})

AppendHistorySrc2 == AppendHistorySrc2Over(HistoryOnLayouts, HistoryFrames, {NoFault})

NextHistoryBoth == AppendHistorySrc \/ AppendHistorySrc2

SpecHistoryBoth == InitHistoryBoth /\ [][NextHistoryBoth]_vars

AppendedSrc2(l) ==
  l.op = "append_history_src2" /\ ~empty(l.df) /\ HistoryOn(l) /\ ~l.raised

\* cell A1 of the history sheet holds nothing (or there is no such sheet)
HeaderCellEmpty(s) ==
  HistoryTab \in DOMAIN s => <<1, 1>> \notin DOMAIN s[HistoryTab].cells

\* the history sheet holds no value at all (or there is no such sheet)
NoValues(s) ==
  HistoryTab \in DOMAIN s => DOMAIN s[HistoryTab].cells = {}

\* row 1 is the header `cols`, rows 2..n+1 are the rows of df
HeaderThenRows(ws, df) ==
  /\ HeaderIs(ws, df.columns)
  /\ \A i \in 1..len(df) : RowHolds(ws, i + 1, df.rows[i])
  /\ LastRow(ws) = len(df) + 1

\* C6 as stated: whichever version appends to a history sheet without
\* values, row 1 becomes the dataset's column names, in order, nothing
\* more and nothing less, and the n rows follow from row 2.
C6_HeaderIsDatasetColumns ==
  [][ ((Appended(last') \/ AppendedSrc2(last')) /\ NoValues(sheets)) =>
        HeaderThenRows(sheets'[HistoryTab], last'.df) ]_vars

\* C6 (amended): src writes the dataset's column names as row 1 and the n
\* rows from row 2 whenever cell A1 is empty.  src2 writes a header only when
\* the sheet holds no value at all, and its header is "Fecha Extraccion"
\* followed by the dataset's column names, each data row starting with the
\* run's time; with A1 empty but values elsewhere it writes no header.
C6_HeaderPerVersion ==
  [][ /\ (Appended(last') /\ HeaderCellEmpty(sheets)) =>
           HeaderThenRows(sheets'[HistoryTab], last'.df)
      /\ (AppendedSrc2(last') /\ NoValues(sheets)) =>
           HeaderThenRows(sheets'[HistoryTab],
                          DataFrame(<<"Fecha Extraccion">> \o last'.df.columns,
                                    [i \in 1..len(last'.df) |->
                                       <<Str(<<last'.time_chile>>)>> \o last'.df.rows[i]]))
      /\ (AppendedSrc2(last') /\ ~NoValues(sheets) /\ HeaderCellEmpty(sheets)) =>
           HeaderCellEmpty(sheets') ]_vars

\* src2 wrote header and two rows on a sheet that held nothing: the header
\* has one column more than the dataset
C6_Witness ==
  /\ AppendedSrc2(last)
  /\ len(last.df) = 2
  /\ LastRow(sheets[HistoryTab]) = 3
  /\ sheets[HistoryTab].cells[<<1, 1>>] = Text(<<"Fecha Extraccion">>)
  /\ sheets[HistoryTab].cells[<<1, 4>>] = Text(<<"CPU">>)
  /\ sheets[HistoryTab].cells[<<2, 2>>] = Text(<<"a">>)

(***************************************************************************)
(* SpecRules: publishes of src over every kind of threshold                *)
(***************************************************************************)
RuleOperators == {"!=", ">", ">=", "<", "<=", "==", "between", "not_between", "~"}

RuleFormats == {"TEXT", Absent, "NUMBER"}

RuleValues == {Str(<<"a">>), Num(90)}

RuleThreshold(op, v) ==
  IF op \in {"between", "not_between"}
    THEN Threshold(op, PyNone, Num(10), v)
    ELSE Threshold(op, v, PyNone, PyNone)

\* one threshold, on the first or on the second column
RuleLayouts ==
  { Layout("Servidores", Absent,
           << ColumnConf("name", "Servidor", IF c = 1 THEN f ELSE "TEXT",
                         IF c = 1 THEN RuleThreshold(op, v) ELSE NoThreshold),
              ColumnConf("cpu", "CPU", IF c = 2 THEN f ELSE "NUMBER",
                         IF c = 2 THEN RuleThreshold(op, v) ELSE NoThreshold) >>,
           Absent) :
      op \in RuleOperators, f \in RuleFormats, v \in RuleValues, c \in {1, 2} }

RuleFrames ==
  { DataFrame(<<"Servidor", "CPU">>,
              << <<Str(<<"a">>), Num(95)>>, <<Str(<<"b">>), Num(5)>> >>) }

InitRules ==
  /\ sheets = (OtherTab :> OtherSheet)
  /\ last = NoOp

\* a threshold without a supported operator on the first column, next to a
\* supported, an unsupported or no threshold on the second
MixedLayouts ==
  { Layout("Servidores", Absent,
           << ColumnConf("name", "Servidor", "TEXT",
                         Threshold(op, Str(<<"a">>), PyNone, PyNone)),
              ColumnConf("cpu", "CPU", "NUMBER", th) >>,
           Absent) :
      op \in {"~", Absent},
      th \in {Threshold(">", Num(90), PyNone, PyNone),
              Threshold("<>", Num(90), PyNone, PyNone), NoThreshold} }

PublishRules == UpdateSnapshotOver(RuleLayouts \cup MixedLayouts, RuleFrames, {NoFault})

NextRules == PublishRules

SpecRules == InitRules /\ [][NextRules]_vars

\* the columns of the published dataset whose threshold has operator `op`
ColumnsWith(op) ==
  { i \in 1..Len(last.df.columns) :
      /\ HasConf(last.tab_config.columns, last.df.columns[i])
      /\ ConfOf(last.tab_config.columns, last.df.columns[i]).threshold.present
      /\ ConfOf(last.tab_config.columns, last.df.columns[i]).threshold.operator = op }

\* the rules the publish added for column i, in the order sent
RulesFor(i) ==
  SelectSeq(AddsOf(last.calls),
            LAMBDA q : q.rule.ranges[1].startColumnIndex = i - 1)

\* rows 7 .. 6 + n of column i of the snapshot sheet
DataRange(i) ==
  [sheetId |-> sheets[SnapshotTab].id,
   startRowIndex |-> 6, endRowIndex |-> 6 + len(last.df),
   startColumnIndex |-> i - 1, endColumnIndex |-> i]

\* C9: a publish turns a threshold with operator != into exactly one rule,
\* over the data range of the column, of type CUSTOM_FORMULA, whose single
\* value is =TRIM(<first data cell>)<>V with V the configured value in
\* double quotes when the column's format is TEXT or unset and bare
\* otherwise; the type is none of the comparison map's.
C9_NotEqualIsCustomFormula ==
  Published =>
    \A i \in ColumnsWith("!=") :
      LET conf == ConfOf(last.tab_config.columns, last.df.columns[i])
          text == PyStr(conf.threshold.value)
          V == IF conf.format \in {"TEXT", Absent}
                 THEN <<"\"">> \o text \o <<"\"">>
                 ELSE text
          rules == RulesFor(i)
      IN  /\ Len(rules) = 1
          /\ rules[1].rule.ranges = <<DataRange(i)>>
          /\ rules[1].rule.booleanRule.condition.type = "CUSTOM_FORMULA"
          /\ rules[1].rule.booleanRule.condition.values =
               << [userEnteredValue |->
                     <<"=TRIM(", <<"A", "B">>[i], "7", ")<>">> \o V] >>
          /\ \A op \in DOMAIN CONDITION_MAP :
               rules[1].rule.booleanRule.condition.type # CONDITION_MAP[op]
          /\ \E k \in 1..Len(sheets[SnapshotTab].rules) :
               sheets[SnapshotTab].rules[k] = rules[1].rule

\* a != threshold on the second column, of format NUMBER: the value is bare
C9_Witness ==
  /\ Published
  /\ ColumnsWith("!=") = {2}
  /\ ConfOf(last.tab_config.columns, "CPU").format = "NUMBER"
  /\ Len(sheets[SnapshotTab].rules) = 1
  /\ sheets[SnapshotTab].rules[1].booleanRule.condition.values =
       << [userEnteredValue |-> <<"=TRIM(", "B", "7", ")<>", "9", "0">>] >>

\* C10: a publish turns a between (not_between) threshold into one rule of
\* type NUMBER_BETWEEN (NUMBER_NOT_BETWEEN) with exactly two values, the
\* configured min and then the configured max; a threshold with >, >=, <,
\* <= or == becomes one rule with exactly one value, the configured value.
C10_ComparisonValues ==
  Published =>
    /\ \A op \in {"between", "not_between"} : \A i \in ColumnsWith(op) :
         LET th == ConfOf(last.tab_config.columns, last.df.columns[i]).threshold
             rules == RulesFor(i)
         IN  /\ Len(rules) = 1
             /\ rules[1].rule.booleanRule.condition.type =
                  (IF op = "between" THEN "NUMBER_BETWEEN" ELSE "NUMBER_NOT_BETWEEN")
             /\ rules[1].rule.booleanRule.condition.values =
                  << [userEnteredValue |-> PyStr(th.min)],
                     [userEnteredValue |-> PyStr(th.max)] >>
    /\ \A op \in {">", ">=", "<", "<=", "=="} : \A i \in ColumnsWith(op) :
         LET th == ConfOf(last.tab_config.columns, last.df.columns[i]).threshold
             rules == RulesFor(i)
         IN  /\ Len(rules) = 1
             /\ rules[1].rule.booleanRule.condition.type # "CUSTOM_FORMULA"
             /\ rules[1].rule.booleanRule.condition.values =
                  << [userEnteredValue |-> PyStr(th.value)] >>

\* a between threshold with min 10 and max 90 left a rule with 10 then 90
C10_Witness ==
  /\ Published
  /\ ColumnsWith("between") = {2}
  /\ Len(sheets[SnapshotTab].rules) = 1
  /\ sheets[SnapshotTab].rules[1].booleanRule.condition =
       [type |-> "NUMBER_BETWEEN",
        values |-> << [userEnteredValue |-> <<"1", "0">>],
                      [userEnteredValue |-> <<"9", "0">>] >>]

\* the operators for which a rule is built
Supported == DOMAIN CONDITION_MAP \cup {"!="}

\* the columns of the published dataset with a threshold, by whether its
\* operator is one of `ops`
ColumnsAmong(ops, in) ==
  { i \in 1..Len(last.df.columns) :
      /\ HasConf(last.tab_config.columns, last.df.columns[i])
      /\ ConfOf(last.tab_config.columns, last.df.columns[i]).threshold.present
      /\ (ConfOf(last.tab_config.columns, last.df.columns[i]).threshold.operator
            \in ops) = in }

\* the batch_update calls that carry rule additions (or nothing at all)
RuleBatches(calls) ==
  SelectSeq(calls, LAMBDA c :
    /\ c.op = "batch_update"
    /\ (c.requests = <<>> \/ c.requests[1].req = "addConditionalFormatRule"))

\* the rules of the snapshot sheet over column i
SheetRulesOn(i) ==
  SelectSeq(sheets[SnapshotTab].rules,
            LAMBDA r : r.ranges[1].startColumnIndex = i - 1)

\* C11: a publish of a non-empty dataset does not fail on a threshold whose
\* operator is neither in the condition map nor !=: that column gets no
\* rule, every column with a supported operator gets its rule, and when no
\* column yields a rule no rule-addition batch is sent.
C11_UnsupportedOperatorIsSkipped ==
  (last.op = "update_snapshot" /\ ~empty(last.df)) =>
    /\ ~last.raised
    /\ \A i \in ColumnsAmong(Supported, FALSE) :
         RulesFor(i) = <<>> /\ SheetRulesOn(i) = <<>>
    /\ \A i \in ColumnsAmong(Supported, TRUE) :
         Len(RulesFor(i)) = 1 /\ SheetRulesOn(i) = <<RulesFor(i)[1].rule>>
    /\ Len(RuleBatches(last.calls)) =
         (IF ColumnsAmong(Supported, TRUE) = {} THEN 0 ELSE 1)

\* operator ~ on the first column, > on the second: one rule, on column B
C11_Witness ==
  /\ Published
  /\ ColumnsAmong(Supported, FALSE) = {1}
  /\ ColumnsAmong(Supported, TRUE) = {2}
  /\ Len(sheets[SnapshotTab].rules) = 1
  /\ sheets[SnapshotTab].rules[1].booleanRule.condition.type = "NUMBER_GREATER"

(***************************************************************************)
(* DashboardBuilder (src/services/sheets_dashboard.py)                     *)
(***************************************************************************)
DashboardTab == "Dashboard"

\* the grid self.sh.add_worksheet gives a new dashboard sheet
DashboardRows == 100

DashboardCols == 35

Sleep(seconds) == Call([op |-> "sleep", seconds |-> seconds])

\* [v["name"] for v in columns if v.get("format") in NUMBER, INTEGER, PERCENT]
_get_numeric_metrics(tab_config) ==
  LET cols == tab_config.columns
      item(k) == IF cols[k].format \in {"NUMBER", "INTEGER", "PERCENT"}
                   THEN <<cols[k].name>> ELSE <<>>
  IN  Collect(item, 1, Len(cols))

\* the text gspread returns for a cell
CellText(v) ==
  CASE v.t = "text" -> v.s
    [] v.t = "number" -> IntText(v.n)
    [] v.t = "date" -> DateText(v.k)
    [] v.t = "formula" -> v.f
    [] OTHER -> <<>>

\* a faulty variant: the first column is read whatever col_idx is
ValidDefaultFirst(s, tab_name, col_idx) ==
  IF tab_name \notin DOMAIN s THEN PyNone
  ELSE LET cells == s[tab_name].cells IN
       IF \E a \in DOMAIN cells : a[2] = 1 /\ a[1] >= 2
         THEN IF <<2, 1>> \in DOMAIN cells
                THEN Str(CellText(cells[<<2, 1>>]))
                ELSE Str(<<>>)
         ELSE PyNone

\* the value _get_valid_default returns when its two reads succeed:
\* ws.col_values(col_idx)[1:] and then the first element, or None
ValidDefault(s, tab_name, col_idx) ==
  IF tab_name \notin DOMAIN s THEN PyNone
  ELSE LET cells == s[tab_name].cells IN
       IF \E a \in DOMAIN cells : a[2] = col_idx /\ a[1] >= 2
         THEN IF <<2, col_idx>> \in DOMAIN cells
                THEN Str(CellText(cells[<<2, col_idx>>]))
                ELSE Str(<<>>)
         ELSE PyNone

\* a faulty variant: the two reads are outside any try block
_get_valid_default_uncaught(tab_name, col_idx, g) ==
  << Call([op |-> "worksheet", name |-> tab_name]),
     Call([op |-> "col_values", name |-> tab_name, col |-> col_idx]) >>

\* the two reads of _get_valid_default, inside try block g
_get_valid_default(tab_name, col_idx, g) ==
  << Call([op |-> "worksheet", name |-> tab_name, try |-> g, catch |-> AnyException]),
     Call([op |-> "col_values", name |-> tab_name, col |-> col_idx,
           try |-> g, catch |-> AnyException]) >>

\* a faulty variant: the charts found are left in place
ChartDeletionsNone(ws) == <<>>

\* one deleteEmbeddedObject per chart of the sheet's metadata, by its id
ChartDeletions(ws) ==
  [k \in 1..Len(ws.charts) |->
     [req |-> "deleteEmbeddedObject", objectId |-> ws.charts[k].chartId]]

_prepare_worksheet(s, name) ==
  LET ws == IF name \in DOMAIN s THEN s[name]
            ELSE Sheet(NextSheetId(s), DashboardRows, DashboardCols)
      requests ==
        ChartDeletions(ws)
        \o << [req |-> "setDataValidation",
               range |-> [sheetId |-> ws.id,
                          startRowIndex |-> 0, endRowIndex |-> 1000,
                          startColumnIndex |-> 0, endColumnIndex |-> 50],
               rule |-> PyNone] >>
      in(c) == c @@ [try |-> 1, catch |-> {"WorksheetNotFound"}]
  IN  << Call(in([op |-> "worksheet", name |-> name])),
         Call(in([op |-> "clear", name |-> name])),
         Call(in([op |-> "sleep", seconds |-> 1])),
         Call(in([op |-> "fetch_sheet_metadata"])),
         Call(in([op |-> "batch_update", requests |-> requests])),
         Call(in([op |-> "sleep", seconds |-> 2])),
         Call([op |-> "add_worksheet", name |-> name,
               rows |-> DashboardRows, cols |-> DashboardCols, when |-> 1]),
         Call([op |-> "batch_update",
               requests |-> << [req |-> "updateSheetProperties", sheetId |-> ws.id,
                                index |-> 0, hideGridlines |-> TRUE] >>]) >>

_setup_layout(name) ==
  LET label(at, text) ==
        << Call([op |-> "update_acell", name |-> name, at |-> at,
                 values |-> << <<Text(<<text>>)>> >>]),
           Call([op |-> "format", name |-> name,
                 range |-> Rect(at[1], at[2], at[1], at[2]),
                 format |-> "LABEL_BOLD"]) >>
      pair(at) ==
        Call([op |-> "update", name |-> name, at |-> at,
              values |-> << <<Text(<<"Fecha">>), Text(<<"Valor">>)>> >>])
  IN  << Call([op |-> "merge_cells", name |-> name, range |-> Rect(1, 1, 1, 26)]),
         Call([op |-> "update", name |-> name, at |-> <<1, 1>>,
               values |-> << <<Text(<<"DASHBOARD OPERATIVO - RAPTOR">>)>> >>]),
         Call([op |-> "format", name |-> name, range |-> Rect(1, 1, 1, 1),
               format |-> "HEADER_DASHBOARD"]),
         Call([op |-> "format", name |-> name, range |-> Rect(2, 1, 100, 26),
               format |-> "DASHBOARD_BG"]) >>
      \o label(<<3, 2>>, "Servidor:") \o label(<<3, 5>>, "Metrica:")
      \o label(<<28, 2>>, "Camara:") \o label(<<28, 5>>, "Metrica Camara:")
      \o << pair(<<4, 27>>), pair(<<4, 30>>) >>

_setup_selectors(s, name, ws, servers_config, cameras_config, srv_metrics, cam_metrics) ==
  LET hist_srv == servers_config.history_tab
      hist_cam == cameras_config.history_tab
      def_srv == ValidDefault(s, hist_srv, 1)
      def_cam == ValidDefault(s, hist_cam, 2)
      truthy(v) == v # PyNone /\ v.s # <<>>
      set(at, text, g) ==
        << Call([op |-> "update_acell", name |-> name, at |-> at,
                 values |-> << <<Text(text)>> >>, after |-> g]) >>
      validation(at, rule) ==
        [req |-> "setDataValidation",
         range |-> a1_range_to_grid_range(Rect(at[1], at[2], at[1], at[2]), ws.id),
         rule |-> rule]
      one_of_list(metrics) ==
        [type |-> "ONE_OF_LIST",
         values |-> [k \in 1..Len(metrics) |-> [userEnteredValue |-> <<metrics[k]>>]]]
      one_of_range(hist, column) ==
        [type |-> "ONE_OF_RANGE",
         values |-> << [userEnteredValue |-> <<"='", hist, "'!", column>>] >>]
  IN  _get_valid_default(hist_srv, 1, 2)
      \o _get_valid_default(hist_cam, 2, 3)
      \o (IF truthy(def_srv) THEN set(<<3, 3>>, def_srv.s, 2) ELSE <<>>)
      \o (IF srv_metrics # <<>> THEN set(<<3, 6>>, <<srv_metrics[1]>>, 0) ELSE <<>>)
      \o (IF truthy(def_cam) THEN set(<<28, 3>>, def_cam.s, 3) ELSE <<>>)
      \o (IF cam_metrics # <<>> THEN set(<<28, 6>>, <<cam_metrics[1]>>, 0) ELSE <<>>)
      \o << Call([op |-> "batch_update",
                  requests |->
                    << validation(<<3, 3>>, one_of_range(hist_srv, "A2:A")),
                       validation(<<3, 6>>, one_of_list(srv_metrics)),
                       validation(<<28, 3>>, one_of_range(hist_cam, "B2:B")),
                       validation(<<28, 6>>, one_of_list(cam_metrics)) >>]) >>

\* the FILTER formula of a helper column: the date column and the metric
\* column of history sheet h, the rows whose `column` equals `selector`
FilterFormula(h, date, metric, column, selector) ==
  <<"=", "IFERROR(SORT(FILTER(HSTACK(CHOOSECOLS('", h, "'!A:Z, XMATCH(\"", date,
    "\", '", h, "'!1:1)), CHOOSECOLS('", h, "'!A:Z, XMATCH(", metric, ", '", h,
    "'!1:1))), '", h, "'!", column, " = ", selector, "), 1, TRUE), \"\")">>

_inject_formulas(name, srv_conf, cam_conf) ==
  LET h_srv == srv_conf.history_tab
      h_cam == cam_conf.history_tab
      f_srv == FilterFormula(h_srv, "Fecha consulta", "F3", "A:A", "C3")
      f_cam == FilterFormula(h_cam, "Fecha - hora consulta", "F28", "B:B", "C28")
  IN  << Call([op |-> "update_acell", name |-> name, at |-> <<5, 27>>,
               values |-> << <<Text(f_srv)>> >>]),
         Call([op |-> "update_acell", name |-> name, at |-> <<5, 30>>,
               values |-> << <<Text(f_cam)>> >>]) >>

_format_hidden_data(ws) ==
  << Call([op |-> "batch_update",
           requests |->
             << [req |-> "repeatCell", sheetId |-> ws.id,
                 range |-> a1_range_to_grid_range(Rect(5, 27, 1000, 27), ws.id)],
                [req |-> "repeatCell", sheetId |-> ws.id,
                 range |-> a1_range_to_grid_range(Rect(5, 30, 1000, 30), ws.id)] >>]) >>

\* a faulty variant: the retry is made after any APIError
_create_charts_retry_all(ws) ==
  LET charts ==
        << [req |-> "addChart", title |-> "Servidor",
            anchorCell |-> [sheetId |-> ws.id, rowIndex |-> 5, columnIndex |-> 1]],
           [req |-> "addChart", title |-> "Camara",
            anchorCell |-> [sheetId |-> ws.id, rowIndex |-> 30, columnIndex |-> 1]] >>
  IN  << Call([op |-> "batch_update", requests |-> charts,
               try |-> 5, catch |-> AnyAPIError]),
         Call([op |-> "sleep", seconds |-> 15, when |-> 5]),
         Call([op |-> "batch_update", requests |-> charts, when |-> 5]) >>

\* one batch with the two charts; an APIError that reports 429 is answered
\* with a wait and one more attempt, any other APIError is raised again
_create_charts(ws) ==
  LET charts ==
        << [req |-> "addChart", title |-> "Servidor",
            anchorCell |-> [sheetId |-> ws.id, rowIndex |-> 5, columnIndex |-> 1]],
           [req |-> "addChart", title |-> "Camara",
            anchorCell |-> [sheetId |-> ws.id, rowIndex |-> 30, columnIndex |-> 1]] >>
  IN  << Call([op |-> "batch_update", requests |-> charts,
               try |-> 5, catch |-> AnyAPIError, reraise |-> {"APIError"}]),
         Call([op |-> "sleep", seconds |-> 15, when |-> 5]),
         Call([op |-> "batch_update", requests |-> charts, when |-> 5]) >>

\* the calls of build(), in program order
\* a slip: the stages follow each other without the pauses between them
BuildCallsUnpaced(s, servers_config, cameras_config) ==
  LET name == DashboardTab
      ws == IF name \in DOMAIN s THEN s[name]
            ELSE Sheet(NextSheetId(s), DashboardRows, DashboardCols)
      srv_metrics == _get_numeric_metrics(servers_config)
      cam_metrics == _get_numeric_metrics(cameras_config)
  IN  _prepare_worksheet(s, name)
      \o _setup_layout(name)
      \o _setup_selectors(s, name, ws, servers_config, cameras_config,
                          srv_metrics, cam_metrics)
      \o _inject_formulas(name, servers_config, cameras_config)
      \o _format_hidden_data(ws)
      \o _create_charts(ws)

BuildCalls(s, servers_config, cameras_config) ==
  LET name == DashboardTab
      ws == IF name \in DOMAIN s THEN s[name]
            ELSE Sheet(NextSheetId(s), DashboardRows, DashboardCols)
      srv_metrics == _get_numeric_metrics(servers_config)
      cam_metrics == _get_numeric_metrics(cameras_config)
  IN  << Sleep(5) >>
      \o _prepare_worksheet(s, name)
      \o << Sleep(3) >>
      \o _setup_layout(name)
      \o << Sleep(2) >>
      \o _setup_selectors(s, name, ws, servers_config, cameras_config,
                          srv_metrics, cam_metrics)
      \o << Sleep(2) >>
      \o _inject_formulas(name, servers_config, cameras_config)
      \o _format_hidden_data(ws)
      \o << Sleep(6) >>
      \o _create_charts(ws)

build(s, servers_config, cameras_config, fault) ==
  Run(s, BuildCalls(s, servers_config, cameras_config), fault)

(***************************************************************************)
(* SpecDashboard: builds of the dashboard, the remote rejecting at most    *)
(* one call of a build (two for the chart batch and its second attempt)    *)
(***************************************************************************)
CamerasTab == "Camaras"

CamerasHistoryTab == "HistorialCam"

ServersConfig == Layout("Servidores", HistoryTab, HistoryConf, Absent)

CamerasConfig ==
  [tab_name |-> CamerasTab, title |-> "Camaras", history_tab |-> CamerasHistoryTab,
   columns |-> << ColumnConf("site", "Sitio", "TEXT", NoThreshold),
                  ColumnConf("cam", "Camara", "TEXT", NoThreshold),
                  ColumnConf("fps", "FPS", "INTEGER", NoThreshold),
                  ColumnConf("up", "Uptime", "PERCENT", NoThreshold) >>,
   merge_column |-> Absent]

CamerasColumns == <<"Sitio", "Camara", "FPS", "Uptime">>

\* both history sheets hold a data row; the servers history holds a chart
\* somebody added by hand
FilledHistories ==
  (HistoryTab :>
     [Sheet(3, 2, 3) EXCEPT
        !.cells = HeaderCells(HistoryColumns)
                  @@ (<<2, 1>> :> Text(<<"a">>)) @@ (<<2, 2>> :> Date(1))
                  @@ (<<2, 3>> :> Number(5)),
        !.charts = << [chartId |-> 9, title |-> "manual",
                       anchorCell |-> [sheetId |-> 3, rowIndex |-> 0,
                                       columnIndex |-> 5]] >>])
  @@ (CamerasHistoryTab :>
        [Sheet(4, 2, 4) EXCEPT
           !.cells = HeaderCells(CamerasColumns)
                     @@ (<<2, 1>> :> Text(<<"s1">>)) @@ (<<2, 2>> :> Text(<<"c1">>))
                     @@ (<<2, 3>> :> Number(30))])

\* the servers history has its header only; the cameras history has a row
\* without camera name followed by a row with one
SparseHistories ==
  (HistoryTab :> [Sheet(3, 1, 3) EXCEPT !.cells = HeaderCells(HistoryColumns)])
  @@ (CamerasHistoryTab :>
        [Sheet(4, 3, 4) EXCEPT
           !.cells = HeaderCells(CamerasColumns)
                     @@ (<<2, 1>> :> Text(<<"s1">>))
                     @@ (<<3, 1>> :> Text(<<"s1">>)) @@ (<<3, 2>> :> Text(<<"c2">>))])

\* a dashboard sheet left by earlier builds and by hand: three charts, two
\* validation rules, values and a merged title
UsedDashboard ==
  [Sheet(7, DashboardRows, DashboardCols) EXCEPT
     !.cells = (<<1, 1>> :> Text(<<"viejo">>)) @@ (<<3, 3>> :> Text(<<"z">>)),
     !.merges = {Rect(1, 1, 1, 26)},
     !.charts = [k \in 1..3 |->
                   [chartId |-> <<1, 2, 5>>[k], title |-> "viejo",
                    anchorCell |-> [sheetId |-> 7, rowIndex |-> 5, columnIndex |-> 1]]],
     !.validations = (<<3, 3>> :> [type |-> "ONE_OF_LIST", values |-> <<>>])
                     @@ (<<40, 10>> :> [type |-> "ONE_OF_LIST", values |-> <<>>])]

InitDashboard ==
  /\ sheets \in { h @@ d : h \in {FilledHistories, SparseHistories, <<>>},
                           d \in {(DashboardTab :> UsedDashboard), <<>>} }
  /\ last = NoOp

\* the rejections a build can meet: none, one call rejected, or the chart
\* batch rejected for a rate limit and its second attempt rejected too
BuildFaults(calls) ==
  LET remote == {i \in 1..Len(calls) : calls[i].op # "sleep"}
      retries == {i \in remote : calls[i].when = 5}
  IN  {NoFault}
      \cup {(i :> "APIError429") : i \in remote}
      \cup {(i :> "APIError") : i \in {j \in remote : calls[j].try # 0}}
      \cup {(i - 2 :> "APIError429") @@ (i :> k) : i \in retries, k \in AnyAPIError}

Build ==
  \E fault \in BuildFaults(BuildCalls(sheets, ServersConfig, CamerasConfig)) :
    \E r \in {build(sheets, ServersConfig, CamerasConfig, fault)} :
      /\ AllHit(fault, r)
      /\ sheets' = r.sheets
      /\ last' = Record("build", Absent, NoFrame, "", fault, r)

NextDashboard == Build

SpecDashboard == InitDashboard /\ [][NextDashboard]_vars

Built == last.op = "build"

BuiltOk == Built /\ ~last.raised

IsChartBatch(c) ==
  c.op = "batch_update" /\ c.requests # <<>> /\ c.requests[1].req = "addChart"

\* the chart batches a build sent, and the rejections they met
ChartBatches(calls) == SelectSeq(calls, IsChartBatch)

ChartRejections(rejections) == SelectSeq(rejections, LAMBDA r : IsChartBatch(r.call))

ChartsTitled(ws, title) == {k \in 1..Len(ws.charts) : ws.charts[k].title = title}

\* C12: a build sends the chart batch at most twice; a second attempt is
\* made exactly when the first one is rejected for a rate limit (429); a
\* rejection of the second attempt, or any other rejection of the first,
\* raises out of build (the latter without a second attempt); and a build
\* that returns normally leaves exactly one server chart and one camera
\* chart on the dashboard.
C12_ChartBatchRetriedOnce ==
  Built =>
    LET attempts == Len(ChartBatches(last.calls))
        rej == ChartRejections(last.rejections)
    IN  /\ attempts <= 2
        /\ rej = <<>> => attempts <= 1
        /\ (rej # <<>> /\ rej[1].kind = "APIError429") => attempts = 2
        /\ (rej # <<>> /\ rej[1].kind # "APIError429") =>
             (attempts = 1 /\ last.raised)
        /\ Len(rej) = 2 => last.raised
        /\ ~last.raised =>
             /\ attempts >= 1
             /\ Len(sheets[DashboardTab].charts) = 2
             /\ Cardinality(ChartsTitled(sheets[DashboardTab], "Servidor")) = 1
             /\ Cardinality(ChartsTitled(sheets[DashboardTab], "Camara")) = 1

\* the first chart batch met a rate limit, the second attempt went through
C12_Witness ==
  /\ BuiltOk
  /\ Len(ChartBatches(last.calls)) = 2
  /\ Len(ChartRejections(last.rejections)) = 1
  /\ Len(sheets[DashboardTab].charts) = 2

\* the four dropdown cells C3, F3, C28, F28
DropdownCells == {<<3, 3>>, <<3, 6>>, <<28, 3>>, <<28, 6>>}

IsLayoutWrite(c) == c.op \in {"merge_cells", "update", "update_acell"}

\* C17: a build on an existing dashboard sheet with c >= 0 charts sends,
\* before its first layout write, a clear of the sheet and one batch that
\* deletes each of the c charts by its id and removes the validation rules:
\* after that batch the sheet has no value, no chart and no validation
\* rule.  After every build that returns normally the dashboard holds
\* exactly two charts and the four validation rules of the dropdown cells,
\* and the charts of the other sheets are as before.
C17_BuildStartsFromNothing ==
  [][ last'.op = "build" =>
        LET calls == last'.calls
            writes == {i \in 1..Len(calls) : IsLayoutWrite(calls[i])}
        IN  /\ (DashboardTab \in DOMAIN sheets /\ writes # {}) =>
                 \E i, j \in 1..Len(calls) :
                   /\ i < j /\ \A w \in writes : j < w
                   /\ calls[i].op = "clear" /\ calls[i].name = DashboardTab
                   /\ calls[j].op = "batch_update"
                   /\ LET old == sheets[DashboardTab]
                          dels == SelectSeq(calls[j].requests,
                                    LAMBDA q : q.req = "deleteEmbeddedObject")
                          after == Exec(Exec(sheets, calls[i]).sheets, calls[j])
                                     .sheets[DashboardTab]
                      IN  /\ Len(dels) = Len(old.charts)
                          /\ \A k \in 1..Len(old.charts) :
                               \E d \in 1..Len(dels) :
                                 dels[d].objectId = old.charts[k].chartId
                          /\ after.cells = NoCells
                          /\ after.charts = <<>>
                          /\ after.validations = NoCells
            /\ ~last'.raised =>
                 /\ Len(sheets'[DashboardTab].charts) = 2
                 /\ DOMAIN sheets'[DashboardTab].validations = DropdownCells
                 /\ \A n \in DOMAIN sheets \ {DashboardTab} :
                      sheets'[n].charts = sheets[n].charts ]_vars

\* a second build in a row: it deleted the two charts of the first one, and
\* the chart on the servers history is still there
C17_Witness ==
  /\ BuiltOk
  /\ Len(SelectSeq(RequestsOf(last.calls),
                   LAMBDA q : q.req = "deleteEmbeddedObject")) = 2
  /\ Len(sheets[DashboardTab].charts) = 2
  /\ HistoryTab \in DOMAIN sheets
  /\ Len(sheets[HistoryTab].charts) = 1

\* a rejection met by one of the reads of the history sheet `hist`
ReadRejected(hist) ==
  \E k \in 1..Len(last.rejections) :
    /\ last.rejections[k].call.op \in {"worksheet", "col_values"}
    /\ last.rejections[k].call.name = hist
    /\ last.rejections[k].injected

\* after a build that returned normally: the instance dropdown `cell` of
\* the dashboard lists column `letter` of history sheet `hist` from row 2,
\* its default was read from column `col_idx` and is the value of row 2 of
\* that column, and the helper formula at `helper` filters on that column
InstanceSourcedFrom(hist, col_idx, letter, cell, helper, formula) ==
  LET ws == sheets[DashboardTab] IN
  /\ ws.validations[cell] =
       [type |-> "ONE_OF_RANGE",
        values |-> << [userEnteredValue |-> <<"='", hist, "'!", letter \o "2:" \o letter>>] >>]
  /\ (hist \in DOMAIN sheets /\ ~ReadRejected(hist)) =>
       \E k \in 1..Len(last.calls) :
         /\ last.calls[k].op = "col_values"
         /\ last.calls[k].name = hist
         /\ last.calls[k].col = col_idx
  /\ \A k \in 1..Len(last.calls) :
       (last.calls[k].op = "col_values" /\ last.calls[k].name = hist)
         => last.calls[k].col = col_idx
  /\ cell \in DOMAIN ws.cells =>
       (hist \in DOMAIN sheets
        /\ <<2, col_idx>> \in DOMAIN sheets[hist].cells
        /\ ws.cells[cell] = sheets[hist].cells[<<2, col_idx>>])
  /\ ws.cells[helper] = Formula(formula)

\* C18 as stated: for servers and for cameras alike, the instance dropdown,
\* its default and the helper column's filter use the first column (A) of
\* the entity's history sheet.
C18_FirstColumnForBoth ==
  BuiltOk =>
    /\ InstanceSourcedFrom(HistoryTab, 1, "A", <<3, 3>>, <<5, 27>>,
         FilterFormula(HistoryTab, "Fecha consulta", "F3", "A:A", "C3"))
    /\ InstanceSourcedFrom(CamerasHistoryTab, 1, "A", <<28, 3>>, <<5, 30>>,
         FilterFormula(CamerasHistoryTab, "Fecha - hora consulta", "F28", "A:A", "C28"))

\* C18 (amended): for servers the instance dropdown (C3), its default and
\* the filter of the helper column use the first column (A) of the servers
\* history; for cameras the dropdown (C28), its default and the filter use
\* the second column (B) of the cameras history.
C18_InstanceColumnPerEntity ==
  BuiltOk =>
    /\ InstanceSourcedFrom(HistoryTab, 1, "A", <<3, 3>>, <<5, 27>>,
         FilterFormula(HistoryTab, "Fecha consulta", "F3", "A:A", "C3"))
    /\ InstanceSourcedFrom(CamerasHistoryTab, 2, "B", <<28, 3>>, <<5, 30>>,
         FilterFormula(CamerasHistoryTab, "Fecha - hora consulta", "F28", "B:B", "C28"))

\* both defaults were found: the server of A2 and the camera of B2
C18_Witness ==
  /\ BuiltOk
  /\ <<3, 3>> \in DOMAIN sheets[DashboardTab].cells
  /\ sheets[DashboardTab].cells[<<3, 3>>] = Text(<<"a">>)
  /\ <<28, 3>> \in DOMAIN sheets[DashboardTab].cells
  /\ sheets[DashboardTab].cells[<<28, 3>>] = Text(<<"c1">>)

\* the first column of a layout with a numeric format
FirstMetric(tab_config) ==
  LET cols == tab_config.columns
      numeric == {k \in 1..Len(cols) :
                    cols[k].format \in {"NUMBER", "INTEGER", "PERCENT"}}
  IN  cols[CHOOSE k \in numeric : \A j \in numeric : k <= j].name

\* C19 as stated: after the selectors are set up, each of C3, F3, C28, F28
\* holds a default value, also when the history sheet could not be read.
C19_EveryDropdownHasDefault ==
  BuiltOk => \A cell \in DropdownCells : cell \in DOMAIN sheets[DashboardTab].cells

\* C19 (amended): after a build that returned normally, F3 and F28 hold the
\* first numeric metric of the servers and of the cameras layout.  C3 (C28)
\* holds a value exactly when the servers (cameras) history sheet exists,
\* its reads were not rejected and row 2 of its column A (B) is not empty,
\* and then it holds that value; otherwise the cell is left empty.  A
\* rejection of a read of a history sheet is always caught.
C19_DefaultsWhenAvailable ==
  /\ Built =>
       \A k \in 1..Len(last.rejections) :
         last.rejections[k].call.op \in {"col_values"} => last.rejections[k].caught
  /\ BuiltOk =>
       LET ws == sheets[DashboardTab]
           available(hist, col) ==
             /\ hist \in DOMAIN sheets
             /\ <<2, col>> \in DOMAIN sheets[hist].cells
             /\ ~ReadRejected(hist)
       IN  /\ ws.cells[<<3, 6>>] = Text(<<FirstMetric(ServersConfig)>>)
           /\ ws.cells[<<28, 6>>] = Text(<<FirstMetric(CamerasConfig)>>)
           /\ (<<3, 3>> \in DOMAIN ws.cells) = available(HistoryTab, 1)
           /\ (<<28, 3>> \in DOMAIN ws.cells) = available(CamerasHistoryTab, 2)
           /\ available(HistoryTab, 1) =>
                ws.cells[<<3, 3>>] = sheets[HistoryTab].cells[<<2, 1>>]
           /\ available(CamerasHistoryTab, 2) =>
                ws.cells[<<28, 3>>] = sheets[CamerasHistoryTab].cells[<<2, 2>>]

\* the read of the servers history was rejected: the build went on, C3 is
\* empty although the history has a server in A2, C28 has its default
C19_Witness ==
  /\ BuiltOk
  /\ HistoryTab \in DOMAIN sheets
  /\ ReadRejected(HistoryTab)
  /\ <<2, 1>> \in DOMAIN sheets[HistoryTab].cells
  /\ <<3, 3>> \notin DOMAIN sheets[DashboardTab].cells
  /\ <<28, 3>> \in DOMAIN sheets[DashboardTab].cells
  /\ <<3, 6>> \in DOMAIN sheets[DashboardTab].cells

(***************************************************************************)
(* SpecFaults: snapshot publishes during which the remote API rejects one *)
(* call, with a rate limit (429) or with another API error                 *)
(***************************************************************************)
FaultLayouts ==
  { Layout("Servidores", Absent,
           << ColumnConf("name", "Servidor", "TEXT", NoThreshold),
              ColumnConf("cpu", "CPU", "NUMBER",
                         Threshold(">", Num(90), PyNone, PyNone)) >>, Absent) }

FaultFrames ==
  { DataFrame(<<"Servidor", "CPU">>, << <<Str(<<"a">>), Num(95)>> >>) }

InitFaults ==
  /\ sheets \in { (OtherTab :> OtherSheet),
                  (OtherTab :> OtherSheet) @@ (SnapshotTab :> DirtySheet) }
  /\ last = NoOp

\* no rejection, or one call of the run rejected
OneFault(calls) ==
  {NoFault} \cup {(i :> k) : i \in 1..Len(calls), k \in AnyAPIError}

RulesFit(s) == \A n \in DOMAIN s : Len(s[n].rules) <= MaxRules

PublishFaulty ==
  \E tab_config \in FaultLayouts, df \in FaultFrames, time_chile \in Times :
    \E fault \in OneFault(SnapshotCalls(sheets, tab_config, df, time_chile)) :
      \E r \in {update_snapshot(sheets, tab_config, df, time_chile, "utc", fault)} :
        /\ AllHit(fault, r)
        /\ RulesFit(r.sheets)
        /\ sheets' = r.sheets
        /\ last' = Record("update_snapshot", tab_config, df, time_chile, fault, r)

NextFaults == PublishFaulty

SpecFaults == InitFaults /\ [][NextFaults]_vars

\* the calls of the structural cleanup that the code guards: the unmerge,
\* the metadata fetch and the deletion of the rules
IsCleanup(c) == c.op \in {"unmerge_cells", "fetch_sheet_metadata"}
                \/ (c.op = "batch_update" /\ c.requests # <<>>
                    /\ c.requests[1].req = "deleteConditionalFormatRule")

CleanupRejections(rejections) ==
  {k \in 1..Len(rejections) : rejections[k].injected /\ IsCleanup(rejections[k].call)}

NotCleanup(c) == ~IsCleanup(c)

\* C13: when the unmerge, the metadata fetch or the rule deletion of the
\* snapshot reset is rejected, update_snapshot catches the rejection, does
\* not raise, and sends every call outside the cleanup that a run without
\* rejection sends (title and metadata block, data write, formats, styles,
\* conditional rules); the values of the sheet end as in that run.
C13_CleanupFailureIsNotFatal ==
  [][ (last'.op = "update_snapshot"
       /\ CleanupRejections(last'.rejections) # {})
      => LET clean == update_snapshot(sheets, last'.tab_config, last'.df,
                                      last'.time_chile, "utc", NoFault)
             name == last'.tab_config.tab_name
         IN  /\ ~last'.raised
             /\ \A k \in CleanupRejections(last'.rejections) :
                  last'.rejections[k].caught
             /\ SelectSeq(last'.calls, NotCleanup) = SelectSeq(clean.calls, NotCleanup)
             /\ sheets'[name].cells = clean.sheets[name].cells ]_vars

\* the deletion of the old rules was rejected; the data and the new rule
\* were written all the same, next to the rules that stayed
C13_Witness ==
  /\ last.op = "update_snapshot"
  /\ ~last.raised
  /\ \E k \in 1..Len(last.rejections) :
       /\ last.rejections[k].injected
       /\ last.rejections[k].call.op = "batch_update"
  /\ <<7, 2>> \in DOMAIN sheets[SnapshotTab].cells
  /\ Len(sheets[SnapshotTab].rules) = 4

\* C14: a rate-limit rejection (429) of any remote call other than the
\* chart batch is never caught: the method that met it raises, also when
\* the call belongs to the reset step.
C14_RateLimitAlwaysPropagates ==
  last.op \in {"update_snapshot", "append_history", "build"} =>
    \A k \in 1..Len(last.rejections) :
      (last.rejections[k].kind = "APIError429"
       /\ ~IsChartBatch(last.rejections[k].call))
        => (~last.rejections[k].caught /\ last.raised)

(***************************************************************************)
(* SpecQuota: publishes, history appends and dashboard builds during      *)
(* which the remote API may answer one call with a rate limit (429)        *)
(***************************************************************************)
QuotaFrames ==
  { DataFrame(HistoryColumns, << <<Str(<<"a">>), Ts(1), Num(5)>> >>) }

InitQuota ==
  /\ sheets = FilledHistories
  /\ last = NoOp

\* no rejection, or one remote call answered with a rate limit
RateLimited(calls) ==
  {NoFault} \cup {(i :> "APIError429") : i \in {j \in 1..Len(calls) : calls[j].op # "sleep"}}

\* for a build: no rejection, a rate limit on the first layout write, on
\* the chart batch, or on the chart batch and on its second attempt
BuildRateLimited(calls) ==
  LET layout == {i \in 1..Len(calls) : calls[i].op = "merge_cells"}
      retries == {i \in 1..Len(calls) : calls[i].when = 5 /\ calls[i].op # "sleep"}
  IN  {NoFault}
      \cup {(i :> "APIError429") : i \in layout}
      \cup {(i - 2 :> "APIError429") : i \in retries}
      \cup {(i - 2 :> "APIError429") @@ (i :> "APIError429") : i \in retries}

PublishQuota ==
  \E df \in QuotaFrames, time_chile \in Times :
    \E fault \in RateLimited(SnapshotCalls(sheets, ServersConfig, df, time_chile)) :
      \E r \in {update_snapshot(sheets, ServersConfig, df, time_chile, "utc", fault)} :
        /\ AllHit(fault, r)
        /\ sheets' = r.sheets
        /\ last' = Record("update_snapshot", ServersConfig, df, time_chile, fault, r)

AppendQuota ==
  \E df \in QuotaFrames, time_chile \in Times :
    \E fault \in RateLimited(HistoryCalls(sheets, ServersConfig.history_tab, df)) :
      \E r \in {append_history(sheets, ServersConfig, df, time_chile, fault)} :
        /\ AllHit(fault, r)
        /\ HistoryFits(r.sheets, ServersConfig)
        /\ sheets' = r.sheets
        /\ last' = Record("append_history", ServersConfig, df, time_chile, fault, r)

BuildQuota ==
  \E fault \in BuildRateLimited(BuildCalls(sheets, ServersConfig, CamerasConfig)) :
    \E r \in {build(sheets, ServersConfig, CamerasConfig, fault)} :
      /\ AllHit(fault, r)
      /\ sheets' = r.sheets
      /\ last' = Record("build", Absent, NoFrame, "", fault, r)

NextQuota == PublishQuota \/ AppendQuota \/ BuildQuota

SpecQuota == InitQuota /\ [][NextQuota]_vars

\* a remote call that changes the spreadsheet
IsMutation(c) ==
  c.op \notin {"sleep", "worksheet", "fetch_sheet_metadata", "col_values",
               "get_values", "get_all_values"}

\* what a call sends, without its place in the control flow of the method
Payload(c) == [f \in DOMAIN c \ {"try", "catch", "reraise", "when", "after"} |-> c[f]]

\* how many times a run sent the call c
CountOf(c, calls) ==
  Cardinality({i \in 1..Len(calls) : Payload(calls[i]) = Payload(c)})

\* the pauses of a run, in seconds, in the order they were taken
Pauses(calls) ==
  LET sleeps == SelectSeq(calls, LAMBDA c : c.op = "sleep")
  IN  [k \in 1..Len(sleeps) |-> sleeps[k].seconds]

RateLimitedMutations(rejections) ==
  {k \in 1..Len(rejections) :
     /\ rejections[k].injected
     /\ rejections[k].kind = "APIError429"
     /\ IsMutation(rejections[k].call)}

ByMethod == last.op \in {"update_snapshot", "append_history", "build"}

\* C15 as stated: every mutation call that meets a rate limit is sent again
\* (the rejection is absorbed by a retry), and no two mutation calls follow
\* each other without a pause between them.
C15_EveryMutationUnderQuotaDiscipline ==
  ByMethod =>
    /\ \A k \in RateLimitedMutations(last.rejections) :
         /\ CountOf(last.rejections[k].call, last.calls) >= 2
         /\ ~last.raised
    /\ \A i \in 1..(Len(last.calls) - 1) :
         ~(IsMutation(last.calls[i]) /\ IsMutation(last.calls[i + 1]))

\* C15 (amended): update_snapshot and append_history take no pause and
\* retry nothing: a mutation call of theirs that meets a rate limit is sent
\* once.  build pauses only between its stages (5 s at the start, 1 s and
\* 2 s inside the reset of an existing dashboard, then 3, 2, 2 and 6 s) and
\* sends the calls of a stage back to back; the only call sent again after
\* a rate limit is the chart batch, once, after a pause of 15 s.
C15_PacingAndRetryOnlyInBuild ==
  ByMethod =>
    LET pauses == Pauses(last.calls)
        existing == \E i \in 1..Len(last.calls) : last.calls[i].op = "clear"
        staged == IF existing THEN <<5, 1, 2, 3, 2, 2, 6>> ELSE <<5, 3, 2, 2, 6>>
        retried == ChartRejections(last.rejections) # <<>>
                   /\ ChartRejections(last.rejections)[1].kind = "APIError429"
    IN  /\ last.op # "build" => pauses = <<>>
        /\ \A k \in RateLimitedMutations(last.rejections) :
             LET c == last.rejections[k].call IN
             CountOf(c, last.calls) = IF IsChartBatch(c) /\ retried THEN 2 ELSE 1
        /\ (last.op = "build" /\ ~last.raised) =>
             pauses = IF retried THEN Append(staged, 15) ELSE staged
        /\ (last.op = "build" /\ last.raised) =>
             \E n \in 0..(Len(staged) + 1) :
               pauses = SubSeq(Append(staged, 15), 1, n)

\* the data write of a publish met a rate limit: it was sent once, without
\* a pause before or after, and update_snapshot raised
C15_Witness ==
  /\ last.op = "update_snapshot"
  /\ last.raised
  /\ \E k \in RateLimitedMutations(last.rejections) :
       last.rejections[k].call.op = "update_cells"
  /\ Pauses(last.calls) = <<>>

(***************************************************************************)
(* run_pipeline: extraction, transformation, then the four load steps      *)
(* inside one try block whose handler logs the error                       *)
(***************************************************************************)
\* a slip: the cameras are loaded before the servers
LoadStepsCamerasFirst(servers_config, cameras_config) ==
  << [method |-> "update_snapshot", tab_config |-> cameras_config, dataset |-> "cameras"],
     [method |-> "append_history", tab_config |-> cameras_config, dataset |-> "cameras"],
     [method |-> "update_snapshot", tab_config |-> servers_config, dataset |-> "servers"],
     [method |-> "append_history", tab_config |-> servers_config, dataset |-> "servers"] >>

\* the load steps in the order run_pipeline makes them
LoadSteps(servers_config, cameras_config) ==
  << [method |-> "update_snapshot", tab_config |-> servers_config, dataset |-> "servers"],
     [method |-> "append_history", tab_config |-> servers_config, dataset |-> "servers"],
     [method |-> "update_snapshot", tab_config |-> cameras_config, dataset |-> "cameras"],
     [method |-> "append_history", tab_config |-> cameras_config, dataset |-> "cameras"] >>

\* the same four calls in run_pipeline of src2, on the service of src2
LoadSteps_src2(servers_config, cameras_config) ==
  LET steps == LoadSteps(servers_config, cameras_config) IN
  [k \in 1..Len(steps) |->
     [steps[k] EXCEPT !.method =
        IF @ = "update_snapshot" THEN "update_snapshot_src2" ELSE "append_history_src2"]]

NoPipelineFault == [step |-> 0, op |-> "none", kind |-> "none"]

\* the remote calls a load step is about to make on spreadsheet s
StepCalls(s, step, df, time_chile) ==
  IF empty(df) THEN <<>>
  ELSE IF step.method = "update_snapshot"
    THEN SnapshotCalls(s, step.tab_config, df, time_chile)
  ELSE IF step.method = "update_snapshot_src2"
    THEN SnapshotCalls_src2(s, step.tab_config, df, time_chile, "utc")
  ELSE IF step.tab_config.history_tab \in {Absent, ""} THEN <<>>
  ELSE IF step.method = "append_history_src2"
    THEN HistoryCalls_src2(s, step.tab_config.history_tab, df, time_chile)
  ELSE HistoryCalls(s, step.tab_config.history_tab, df)

\* the rejection of the first call `fault.op` of step k, if the run's fault
\* is about step k
StepFault(fault, k, calls) ==
  LET at == {i \in 1..Len(calls) : calls[i].op = fault.op} IN
  IF fault.step = k /\ at # {}
    THEN (CHOOSE i \in at : \A j \in at : i <= j) :> fault.kind
    ELSE NoFault

RunStep(s, step, df, time_chile, time_utc, fault) ==
  CASE step.method = "update_snapshot" ->
         update_snapshot(s, step.tab_config, df, time_chile, time_utc, fault)
    [] step.method = "append_history" ->
         append_history(s, step.tab_config, df, time_chile, fault)
    [] step.method = "update_snapshot_src2" ->
         update_snapshot_src2(s, step.tab_config, df, time_chile, time_utc, fault)
    [] step.method = "append_history_src2" ->
         append_history_src2(s, step.tab_config, df, time_chile, fault)

\* steps k.. of the try block; an exception of a step either ends the block
\* (on_error = "abort", the code) or is passed over (on_error = "continue")
RECURSIVE RunSteps(_, _, _, _, _, _, _, _)
RunSteps(s, steps, k, datasets, time_chile, fault, done, on_error) ==
  IF k > Len(steps)
    THEN [sheets |-> s, steps |-> done,
          error_logged |-> \E j \in 1..Len(done) : done[j].raised]
  ELSE
    LET step == steps[k]
        df == datasets[step.dataset]
        r == RunStep(s, step, df, time_chile, "utc",
                     StepFault(fault, k, StepCalls(s, step, df, time_chile)))
        entry == [method |-> step.method, tab_name |-> step.tab_config.tab_name,
                  raised |-> r.raised, calls |-> r.calls,
                  rejections |-> r.rejections]
    IN  IF r.raised /\ on_error = "abort"
          THEN [sheets |-> r.sheets, steps |-> Append(done, entry),
                error_logged |-> TRUE]
          ELSE RunSteps(r.sheets, steps, k + 1, datasets, time_chile, fault,
                        Append(done, entry), on_error)

\* a slip: the steps after a failed one are still made
run_pipeline_continue(s, raw_docs, datasets, servers_config, cameras_config, time_chile, fault) ==
  CASE raw_docs = "error" -> [sheets |-> s, steps |-> <<>>, error_logged |-> TRUE]
    [] raw_docs = "empty" -> [sheets |-> s, steps |-> <<>>, error_logged |-> FALSE]
    [] OTHER -> RunSteps(s, LoadSteps(servers_config, cameras_config), 1, datasets,
                         time_chile, fault, <<>>, "continue")

run_pipeline(s, raw_docs, datasets, servers_config, cameras_config, time_chile, fault) ==
  CASE raw_docs = "error" -> [sheets |-> s, steps |-> <<>>, error_logged |-> TRUE]
    [] raw_docs = "empty" -> [sheets |-> s, steps |-> <<>>, error_logged |-> FALSE]
    [] OTHER -> RunSteps(s, LoadSteps(servers_config, cameras_config), 1, datasets,
                         time_chile, fault, <<>>, "abort")

(***************************************************************************)
(* SpecPipeline: runs of the pipeline, during which the remote API may    *)
(* reject the clear, the data write or the append of one load step         *)
(***************************************************************************)
PipelineServers == Layout("Servidores", HistoryTab, HistoryConf, Absent)

PipelineDatasets ==
  { [servers |-> DataFrame(HistoryColumns, << <<Str(<<"a">>), Ts(1), Num(5)>> >>),
     cameras |-> cam] :
      cam \in { DataFrame(CamerasColumns,
                          << <<Str(<<"s1">>), Str(<<"c1">>), Num(30), Num(99)>> >>),
                DataFrame(CamerasColumns, <<>>) } }

PipelineFaults ==
  {NoPipelineFault}
  \cup { [step |-> k, op |-> o, kind |-> "APIError"] :
           k \in 1..4, o \in {"clear", "update_cells", "append_rows"} }
  \cup { [step |-> k, op |-> "update_cells", kind |-> "APIError429"] : k \in {1, 3} }

\* the fault of the run met a call
PipelineHit(fault, r) ==
  fault = NoPipelineFault
  \/ \E j \in 1..Len(r.steps) :
       \E n \in 1..Len(r.steps[j].rejections) : r.steps[j].rejections[n].injected

InitPipeline ==
  /\ sheets = <<>>
  /\ last = NoOp

RunPipeline ==
  \E raw_docs \in {"docs", "empty", "error"}, datasets \in PipelineDatasets,
     time_chile \in Times, fault \in PipelineFaults :
    \E r \in {run_pipeline(sheets, raw_docs, datasets, PipelineServers,
                           CamerasConfig, time_chile, fault)} :
      /\ PipelineHit(fault, r)
      /\ raw_docs # "docs" => (fault = NoPipelineFault /\ datasets.cameras.rows # <<>>)
      /\ HistoryFits(r.sheets, PipelineServers)
      /\ HistoryFits(r.sheets, CamerasConfig)
      /\ sheets' = r.sheets
      /\ last' = [op |-> "run_pipeline", raw_docs |-> raw_docs, datasets |-> datasets,
                  fault |-> fault, raised |-> FALSE,
                  error_logged |-> r.error_logged, steps |-> r.steps]

NextPipeline == RunPipeline

SpecPipeline == InitPipeline /\ [][NextPipeline]_vars

\* the calls a step got accepted: all it issued but the one that raised
Accepted(step) ==
  IF step.raised THEN SubSeq(step.calls, 1, Len(step.calls) - 1) ELSE step.calls

RECURSIVE Replay(_, _, _)
Replay(s, calls, i) ==
  IF i > Len(calls) THEN s
  ELSE LET r == Exec(s, calls[i]) IN
       IF r.ok THEN Replay(r.sheets, calls, i + 1) ELSE Replay(s, calls, i + 1)

RECURSIVE ReplaySteps(_, _, _)
ReplaySteps(s, steps, k) ==
  IF k > Len(steps) THEN s
  ELSE ReplaySteps(Replay(s, Accepted(steps[k]), 1), steps, k + 1)

\* C16: when a load step of a run raises, run_pipeline logs the error and
\* returns; the step that raised is the last one the run made (no later
\* step issues a call), every step was made at most once and in the order
\* servers snapshot, servers history, cameras snapshot, cameras history
\* (nothing is retried), and the spreadsheet is left as the accepted calls
\* made it (nothing is rolled back).
C16_RunAbortsAtFirstFailure ==
  [][ last'.op = "run_pipeline" =>
        LET steps == last'.steps
            order == LoadSteps(PipelineServers, CamerasConfig)
        IN  /\ ~last'.raised
            /\ Len(steps) <= Len(order)
            /\ \A k \in 1..Len(steps) :
                 /\ steps[k].method = order[k].method
                 /\ steps[k].tab_name = order[k].tab_config.tab_name
                 /\ steps[k].raised => k = Len(steps)
            /\ last'.error_logged =
                 (last'.raw_docs = "error" \/ \E k \in 1..Len(steps) : steps[k].raised)
            /\ (last'.raw_docs = "docs" /\ ~last'.error_logged) => Len(steps) = Len(order)
            /\ sheets' = ReplaySteps(sheets, steps, 1) ]_vars

\* the append to the servers history was rejected: the servers snapshot
\* written before it stays, no call was made for the cameras
C16_Witness ==
  /\ last.op = "run_pipeline"
  /\ last.error_logged
  /\ Len(last.steps) = 2
  /\ last.steps[2].raised
  /\ <<7, 1>> \in DOMAIN sheets[SnapshotTab].cells
  /\ CamerasTab \notin DOMAIN sheets

\* the number formats a publish sent, in the order sent
DataFormats(calls) ==
  LET batches == SelectSeq(calls, LAMBDA c : c.op = "batch_format"
                                             /\ c.formats[1].format \in FORMATS)
  IN  IF batches = <<>> THEN <<>> ELSE batches[1].formats

FormatsFor(i) == SelectSeq(DataFormats(last.calls), LAMBDA e : e.range.c1 = i)

Registered(i) ==
  /\ HasConf(last.tab_config.columns, last.df.columns[i])
  /\ Get(ConfOf(last.tab_config.columns, last.df.columns[i]).format, "TEXT") \in FORMATS

\* C20: a publish of an n-row dataset sends, for every column of the
\* dataset that is in the layout with a registered format kind, exactly one
\* number format, over rows 7 .. 6 + n of that column; it sends none for
\* any other column; and the rules of a column cover the same rows as its
\* number format.
C20_FormatCoversDataRows ==
  (Published /\ last.op = "update_snapshot") =>
    \A i \in 1..Len(last.df.columns) :
      /\ Registered(i) =>
           /\ Len(FormatsFor(i)) = 1
           /\ FormatsFor(i)[1].range = Rect(start_row + 1, i, start_row + len(last.df), i)
           /\ \A k \in 1..Len(RulesFor(i)) :
                /\ RulesFor(i)[k].rule.ranges[1].startRowIndex + 1 = FormatsFor(i)[1].range.r1
                /\ RulesFor(i)[k].rule.ranges[1].endRowIndex = FormatsFor(i)[1].range.r2
      /\ ~Registered(i) => FormatsFor(i) = <<>>

\* what the code does instead: the number format of a registered column
\* covers rows 7 .. 7 + n, one row more than the data and than the rules
FormatRunsOneRowPast ==
  (Published /\ last.op = "update_snapshot") =>
    \A i \in 1..Len(last.df.columns) :
      /\ Registered(i) =>
           /\ Len(FormatsFor(i)) = 1
           /\ FormatsFor(i)[1].range =
                Rect(start_row + 1, i, start_row + 1 + len(last.df), i)
           /\ \A k \in 1..Len(RulesFor(i)) :
                /\ RulesFor(i)[k].rule.ranges[1].startRowIndex + 1 = FormatsFor(i)[1].range.r1
                /\ RulesFor(i)[k].rule.ranges[1].endRowIndex + 1 = FormatsFor(i)[1].range.r2
      /\ ~Registered(i) => FormatsFor(i) = <<>>

\* the visual styles a publish sent, flattened in the order the remote
\* applies them: call after call, entry after entry
RECURSIVE StylesFrom(_, _)
StylesFrom(calls, i) ==
  IF i > Len(calls) THEN <<>>
  ELSE (IF calls[i].op = "batch_format"
           /\ calls[i].formats[1].format \in {"TABLE_BASE", "HEADER_BLUE"}
          THEN calls[i].formats ELSE <<>>)
       \o StylesFrom(calls, i + 1)

\* the style a cell ends with when a later entry overrides an earlier one
StyleOf(styles, cell) ==
  LET covering == {k \in 1..Len(styles) : Inside(Rect(cell[1], cell[2], cell[1], cell[2]), styles[k].range)}
  IN  IF covering = {} THEN "none"
      ELSE styles[CHOOSE k \in covering : \A j \in covering : j <= k].format

\* C21: a publish of an n-row dataset sends the base table style over the
\* header row and the n data rows, all dataset columns, and after it the
\* header style over the header row only; with a later entry overriding an
\* earlier one, every header cell ends with the header style and every
\* data cell with the base style.
C21_BaseStyleThenHeaderStyle ==
  Published =>
    LET styles == StylesFrom(last.calls, 1)
        n == len(last.df)
        cols == Len(last.df.columns)
    IN  /\ styles = << [range |-> Rect(start_row, 1, start_row + n, cols),
                        format |-> "TABLE_BASE"],
                       [range |-> Rect(start_row, 1, start_row, cols),
                        format |-> "HEADER_BLUE"] >>
        /\ \A c \in 1..cols :
             /\ StyleOf(styles, <<start_row, c>>) = "HEADER_BLUE"
             /\ \A r \in (start_row + 1)..(start_row + n) :
                  StyleOf(styles, <<r, c>>) = "TABLE_BASE"

\* a publish of two rows: the header sits above two rows in the base style
C21_Witness ==
  /\ Published
  /\ len(last.df) = 2
  /\ StyleOf(StylesFrom(last.calls, 1), <<start_row, 1>>) = "HEADER_BLUE"
  /\ StyleOf(StylesFrom(last.calls, 1), <<start_row + 2, 2>>) = "TABLE_BASE"

(***************************************************************************)
(* The first version of the program ("old versions"): settings from the   *)
(* environment, GoogleSheetsClient.replace_dataframe, and run()            *)
(***************************************************************************)
\* os.getenv(name, default): an environment is a function from the names
\* of the variables that are set to their text
getenv(env, name, default) == IF name \in DOMAIN env THEN env[name] ELSE default

IsSet(env, name) == name \in DOMAIN env

OkSetting(v) == [ok |-> TRUE, value |-> v]

ValueError(message) == [ok |-> FALSE, error |-> message]

_require_env(env, name) ==
  IF ~IsSet(env, name) \/ strip(env[name]) = <<>>
    THEN ValueError(<<"Falta variable requerida: ", name>>)
    ELSE OkSetting(strip(env[name]))

\* int(text): blanks around, an optional sign, then digits
PyIsInt(text) ==
  LET t == strip(text)
      digits == IF t # <<>> /\ Head(t) \in {"+", "-"} THEN Tail(t) ELSE t
  IN  IsDigits(digits)

_optional_int(env, name) ==
  IF ~IsSet(env, name) \/ strip(env[name]) = <<>> THEN OkSetting(PyNone)
  ELSE IF PyIsInt(env[name]) THEN OkSetting(strip(env[name]))
  ELSE ValueError(<<name, " debe ser int. Valor recibido: ">> \o env[name])

LogLevels == {"DEBUG", "INFO", "WARNING", "ERROR", "CRITICAL"}

\* str.upper() on the words the model uses for a level
upper(word) ==
  CASE word = "info" -> "INFO"
    [] word = "debug" -> "DEBUG"
    [] OTHER -> word

_log_level_from_env(raw) ==
  LET key == [k \in 1..Len(strip(raw)) |-> upper(strip(raw)[k])] IN
  IF Len(key) = 1 /\ key[1] \in LogLevels
    THEN OkSetting(key[1])
    ELSE ValueError(<<"LOG_LEVEL invalido. Usa DEBUG/INFO/WARNING/ERROR/CRITICAL">>)

RequiredSettings ==
  << "FIREBASE_CREDENTIALS_PATH", "GOOGLE_SHEETS_CREDENTIALS_PATH",
     "FIRESTORE_COLLECTION_NAME", "GOOGLE_SHEET_ID" >>

\* the settings are read in this order; the first one that fails raises
load_settings(env) ==
  LET required == [k \in 1..Len(RequiredSettings) |-> _require_env(env, RequiredSettings[k])]
      failed == {k \in 1..Len(required) : ~required[k].ok}
      log_level == _log_level_from_env(getenv(env, "LOG_LEVEL", <<"INFO">>))
      limit == _optional_int(env, "LIMIT")
      log_every_raw == strip(getenv(env, "LOG_EVERY", <<"2", "5", "0">>))
  IN  IF failed # {} THEN required[CHOOSE k \in failed : \A j \in failed : k <= j]
      ELSE IF ~log_level.ok THEN log_level
      ELSE IF ~limit.ok THEN limit
      ELSE IF ~PyIsInt(log_every_raw)
        THEN ValueError(<<"LOG_EVERY debe ser int. Valor recibido: ">> \o log_every_raw)
      ELSE OkSetting(
             [servers_sheet_name |-> getenv(env, "SERVERS_SHEET_NAME", "servers"),
              cameras_sheet_name |-> getenv(env, "CAMERAS_SHEET_NAME", "cameras"),
              log_level |-> log_level.value, limit |-> limit.value,
              log_every |-> log_every_raw])

_open_or_create_worksheet(title, rows, cols) ==
  << Call([op |-> "worksheet", name |-> title,
           try |-> 1, catch |-> {"WorksheetNotFound"}]),
     Call([op |-> "add_worksheet", name |-> title,
           rows |-> rows, cols |-> cols, when |-> 1]) >>

\* the runs the two nested while loops find: 0-based start index and length
\* a slip: a run of two is not taken for a run
RECURSIVE RepeatedRunsOverTwo(_, _)
RepeatedRunsOverTwo(values, i) ==
  IF i >= Len(values) THEN <<>>
  ELSE LET stops == {j \in (i + 1)..Len(values) :
                       j = Len(values) \/ ~PyEq(values[j + 1], values[i + 1])}
           j == CHOOSE x \in stops : \A y \in stops : x <= y
       IN  (IF j - i > 2 THEN << [start |-> i, length |-> j - i] >> ELSE <<>>)
           \o RepeatedRunsOverTwo(values, j)

RECURSIVE RepeatedRuns(_, _)
RepeatedRuns(values, i) ==
  IF i >= Len(values) THEN <<>>
  ELSE LET stops == {j \in (i + 1)..Len(values) :
                       j = Len(values) \/ ~PyEq(values[j + 1], values[i + 1])}
           j == CHOOSE x \in stops : \A y \in stops : x <= y
       IN  (IF j - i > 1 THEN << [start |-> i, length |-> j - i] >> ELSE <<>>)
           \o RepeatedRuns(values, j)

\* a slip: the first data row is taken to be the row below the header
FirstDataRowBelowHeader(from_row, has_header) ==
  from_row + (IF has_header THEN 1 ELSE 0)

\* first_data_row = start_row + (1 if has_header else 0) + 1
FirstDataRow(from_row, has_header) ==
  from_row + (IF has_header THEN 1 ELSE 0) + 1

_merge_repeated_in_column(name, ws, df, column_name, from_row, start_col, has_header) ==
  IF empty(df) \/ \A j \in 1..Len(df.columns) : df.columns[j] # column_name
    THEN <<>>
  ELSE
    LET output_rows == len(df) + (IF has_header THEN 1 ELSE 0)
        last_row == from_row + output_rows - 1
        last_col == start_col + Len(df.columns) - 1
        col_idx == start_col + ColumnIndex(df, column_name) - 1
        first_data_row == FirstDataRow(from_row, has_header)
        runs == RepeatedRuns(Column(df, ColumnIndex(df, column_name)), 0)
    IN  << Call([op |-> "unmerge_cells", name |-> name,
                 range |-> Rect(from_row, start_col, last_row, last_col),
                 try |-> 2, catch |-> AnyException]),
           Call([op |-> "unmerge_cells", name |-> name,
                 range |-> Rect(1, 1, ws.rowCount, ws.colCount),
                 when |-> 2, try |-> 3, catch |-> AnyException]) >>
        \o [k \in 1..Len(runs) |->
              Call([op |-> "merge_cells", name |-> name,
                    range |-> Rect(first_data_row + runs[k].start, col_idx,
                                   first_data_row + runs[k].start + runs[k].length - 1,
                                   col_idx)])]

\* the worksheet object replace_dataframe works on, after the resize of
\* set_with_dataframe
ResizedTo(df) == Sheet(0, len(df) + 1, Len(df.columns))

ReplaceCalls(worksheet_name, df, merge_repeated_in_column) ==
  << Call([op |-> "open_by_key"]) >>
  \o _open_or_create_worksheet(worksheet_name, Max({len(df) + 10, 100}),
                               Max({Len(df.columns) + 5, 20}))
  \o << Call([op |-> "clear", name |-> worksheet_name]) >>
  \o set_with_dataframe(worksheet_name, df, 1)
  \o (IF merge_repeated_in_column # Absent
        THEN _merge_repeated_in_column(worksheet_name, ResizedTo(df), df,
                                       merge_repeated_in_column, 1, 1, TRUE)
        ELSE <<>>)

replace_dataframe(s, worksheet_name, df, merge_repeated_in_column, fault) ==
  Run(s, ReplaceCalls(worksheet_name, df, merge_repeated_in_column), fault)

\* the outcome of run(): the document-store calls, the spreadsheet calls
\* and what was logged at level ERROR
Outcome(s, firestore, calls, logged) ==
  [sheets |-> s, firestore |-> firestore, calls |-> calls, logged |-> logged]

Unexpected == <<[level |-> "ERROR", message |-> <<"Error inesperado.">>]>>

\* the two uploads of run(), after the documents were read and transformed
Uploads(s, settings, frames, firestore) ==
  LET servers == IF empty(frames.servers) THEN Returned(s)
                 ELSE replace_dataframe(s, settings.servers_sheet_name,
                                        frames.servers, Absent, NoFault)
  IN  IF servers.raised
        THEN Outcome(servers.sheets, firestore, servers.calls, Unexpected)
      ELSE
        LET cameras == IF empty(frames.cameras) THEN Returned(servers.sheets)
                       ELSE replace_dataframe(servers.sheets,
                                              settings.cameras_sheet_name,
                                              frames.cameras, "Servidor", NoFault)
        IN  Outcome(cameras.sheets, firestore, servers.calls \o cameras.calls,
                    IF cameras.raised THEN Unexpected ELSE <<>>)

\* a slip: the document store is contacted before the settings are read
run_connect_first(s, env, frames) ==
  LET settings == load_settings(env) IN
  IF ~settings.ok
    THEN Outcome(s, <<"connect">>, <<>>,
                 <<[level |-> "ERROR", message |-> settings.error]>>)
    ELSE Uploads(s, settings.value, frames, <<"connect", "iter_documents">>)

run(s, env, frames) ==
  LET settings == load_settings(env) IN
  IF ~settings.ok
    THEN Outcome(s, <<>>, <<>>, <<[level |-> "ERROR", message |-> settings.error]>>)
    ELSE Uploads(s, settings.value, frames, <<"connect", "iter_documents">>)

(***************************************************************************)
(* SpecOld: runs of the first version under good and bad environments     *)
(***************************************************************************)
GoodEnv == [name \in {RequiredSettings[k] : k \in 1..Len(RequiredSettings)} |-> <<"v">>]

EnvTexts == { <<>>, <<" ">>, <<"x">>, <<" ", "7">>, <<"debug">>, <<"-", "3">> }

EnvNames ==
  {RequiredSettings[k] : k \in 1..Len(RequiredSettings)}
  \cup {"LOG_LEVEL", "LIMIT", "LOG_EVERY"}

\* the good environment with one variable unset or set to another text
OldEnvs ==
  {GoodEnv}
  \cup {[n \in DOMAIN GoodEnv \ {name} |-> GoodEnv[n]] : name \in DOMAIN GoodEnv}
  \cup {(name :> text) @@ GoodEnv : name \in EnvNames, text \in EnvTexts}

OldServers == DataFrame(<<"Servidor", "CPU">>, << <<Str(<<"a">>), Num(5)>> >>)

OldCameras ==
  Frames(<<"Camara", "Servidor">>,
         {<<Str(<<"c">>), v>> : v \in MergeValues}, MaxMergeRows)

OldFrames ==
  { [servers |-> OldServers, cameras |-> cam] : cam \in OldCameras }
  \cup { [servers |-> DataFrame(<<"Servidor", "CPU">>, <<>>), cameras |-> cam] :
           cam \in {c \in OldCameras : len(c) = 2} }

InitOld ==
  /\ sheets \in { <<>>, ("cameras" :> [DirtySheet EXCEPT !.id = 1]) }
  /\ last = NoOp

\* the program is a process that runs once and exits
RunOld ==
  \E env \in OldEnvs, frames \in OldFrames :
    /\ last = NoOp
    /\ env # GoodEnv => (frames.servers = OldServers /\ len(frames.cameras) = 1)
    /\ \E r \in {run(sheets, env, frames)} :
      /\ sheets' = r.sheets
      /\ last' = [op |-> "run", env |-> env, frames |-> frames, raised |-> FALSE,
                  firestore |-> r.firestore, calls |-> r.calls, logged |-> r.logged]

NextOld == RunOld

SpecOld == InitOld /\ [][NextOld]_vars

Unset(env, name) == ~IsSet(env, name) \/ strip(env[name]) = <<>>

\* a configuration error in the claim's terms
Misconfigured(env) ==
  \/ \E k \in 1..Len(RequiredSettings) : Unset(env, RequiredSettings[k])
  \/ (~Unset(env, "LIMIT") /\ ~PyIsInt(env["LIMIT"]))
  \/ (IsSet(env, "LOG_EVERY") /\ ~PyIsInt(env["LOG_EVERY"]))
  \/ (IsSet(env, "LOG_LEVEL")
      /\ \A level \in LogLevels :
           strip(env["LOG_LEVEL"]) \notin {<<level>>, <<"info">>, <<"debug">>})

\* C22: a run under an environment with a configuration error (a required
\* setting unset or blank, LIMIT or LOG_EVERY not an integer, LOG_LEVEL not
\* a level) makes no document-store call and no spreadsheet call, leaves
\* the spreadsheet as it was and logs the message of the error, alone, at
\* level ERROR; under any other environment the documents are read.
C22_ConfigErrorStopsBeforeAnyCall ==
  [][ last'.op = "run" =>
        IF Misconfigured(last'.env)
          THEN /\ last'.firestore = <<>>
               /\ last'.calls = <<>>
               /\ sheets' = sheets
               /\ ~load_settings(last'.env).ok
               /\ last'.logged = <<[level |-> "ERROR",
                                   message |-> load_settings(last'.env).error]>>
          ELSE last'.firestore = <<"connect", "iter_documents">> ]_vars

\* LIMIT was set to a text that is no integer, on a spreadsheet that holds
\* a sheet already: nothing was called, the message names LIMIT
C22_Witness ==
  /\ last.op = "run"
  /\ IsSet(last.env, "LIMIT")
  /\ last.env["LIMIT"] = <<"x">>
  /\ last.calls = <<>>
  /\ last.firestore = <<>>
  /\ last.logged = <<[level |-> "ERROR",
                      message |-> <<"LIMIT", " debe ser int. Valor recibido: ", "x">>]>>
  /\ "cameras" \in DOMAIN sheets

Uploaded ==
  /\ last.op = "run"
  /\ last.logged = <<>>
  /\ ~empty(last.frames.cameras)

CameraMerges ==
  SelectSeq(last.calls, LAMBDA c : c.op = "merge_cells" /\ c.name = "cameras")

\* C25: replace_dataframe with a merge column writes the header at row 1,
\* and merges each maximal run of k >= 2 equal adjacent values that starts
\* at 0-based data index i once, as sheet rows i+2 .. i+k+1 of that column:
\* the cells that hold the values of the run; nothing else is merged.
C25_MergeCoversTheRun ==
  Uploaded =>
    LET col == ColumnIndex(last.frames.cameras, "Servidor")
        values == Column(last.frames.cameras, col)
        m == CameraMerges
        region(i, k) == Rect(i + 2, col, i + k + 1, col)
    IN  /\ \A i \in 0..Len(values), k \in 2..Len(values) :
             IsMaximalRun(values, i, k) =>
               Cardinality({j \in 1..Len(m) : m[j].range = region(i, k)}) = 1
        /\ \A j \in 1..Len(m) :
             \E i \in 0..Len(values), k \in 2..Len(values) :
               IsMaximalRun(values, i, k) /\ m[j].range = region(i, k)

\* what the code does instead: the region of a run starts one row too low,
\* at sheet row i+3, and ends at row i+k+2
MergeStartsOneRowLow ==
  Uploaded =>
    LET col == ColumnIndex(last.frames.cameras, "Servidor")
        values == Column(last.frames.cameras, col)
        m == CameraMerges
        region(i, k) == Rect(i + 3, col, i + k + 2, col)
    IN  /\ \A i \in 0..Len(values), k \in 2..Len(values) :
             IsMaximalRun(values, i, k) =>
               Cardinality({j \in 1..Len(m) : m[j].range = region(i, k)}) = 1
        /\ \A j \in 1..Len(m) :
             \E i \in 0..Len(values), k \in 2..Len(values) :
               IsMaximalRun(values, i, k) /\ m[j].range = region(i, k)

(***************************************************************************)
(* SpecRuns: the two run detections on the same column                     *)
(***************************************************************************)
MaxRunLen == 4

RunColumns == SeqsUpTo(MergeValues, MaxRunLen)

\* the (start index, length) pairs behind the merge requests of _merge_cells,
\* read back from the rows of each request
RunsOfMergeCells(values) ==
  LET df == DataFrame(<<"Servidor">>, [i \in 1..Len(values) |-> <<values[i]>>])
      calls == SelectSeq(_merge_cells("t", df, "Servidor", start_row),
                         LAMBDA c : c.op = "merge_cells")
  IN  [k \in 1..Len(calls) |->
         [start |-> calls[k].range.r1 - (start_row + 1),
          length |-> calls[k].range.r2 - calls[k].range.r1 + 1]]

\* the same for _merge_repeated_in_column
RunsOfMergeRepeated(values) ==
  LET df == DataFrame(<<"Servidor">>, [i \in 1..Len(values) |-> <<values[i]>>])
      calls == SelectSeq(_merge_repeated_in_column("t", Sheet(0, 10, 1), df,
                                                   "Servidor", 1, 1, TRUE),
                         LAMBDA c : c.op = "merge_cells")
  IN  [k \in 1..Len(calls) |->
         [start |-> calls[k].range.r1 - FirstDataRow(1, TRUE),
          length |-> calls[k].range.r2 - calls[k].range.r1 + 1]]

InitRuns ==
  /\ sheets = <<>>
  /\ last = NoOp

DetectRuns ==
  \E values \in RunColumns :
    /\ sheets' = sheets
    /\ last' = [op |-> "runs", values |-> values,
                merge_cells |-> RunsOfMergeCells(values),
                merge_repeated |-> RunsOfMergeRepeated(values)]

NextRuns == DetectRuns

SpecRuns == InitRuns /\ [][NextRuns]_vars

Range(seq) == {seq[k] : k \in 1..Len(seq)}

\* C29: on every column, _merge_cells and _merge_repeated_in_column emit
\* the same (start index, length) runs, none twice; the runs are exactly
\* the maximal runs of length >= 2 of equal adjacent values, hence
\* pairwise disjoint and inside the data rows; a column with fewer than
\* two values emits none.
C29_RunDetectionsAgree ==
  last.op = "runs" =>
    LET a == last.merge_cells
        b == last.merge_repeated
        n == Len(last.values)
    IN  /\ Range(a) = Range(b)
        /\ Cardinality(Range(a)) = Len(a)
        /\ Cardinality(Range(b)) = Len(b)
        /\ \A r \in Range(a) :
             /\ r.length >= 2
             /\ r.start >= 0 /\ r.start + r.length <= n
             /\ IsMaximalRun(last.values, r.start, r.length)
        /\ \A i \in 0..n, k \in 2..MaxRunLen + 1 :
             IsMaximalRun(last.values, i, k) =>
               [start |-> i, length |-> k] \in Range(a)
        /\ \A r, q \in Range(a) :
             r # q => (r.start + r.length <= q.start \/ q.start + q.length <= r.start)
        /\ n < 2 => (a = <<>> /\ b = <<>>)

\* a column a, a, b, b: two runs, the second one found by the tail check of
\* _merge_cells
C29_Witness ==
  /\ last.op = "runs"
  /\ last.values = <<Str(<<"a">>), Str(<<"a">>), Str(<<"b">>), Str(<<"b">>)>>
  /\ last.merge_cells = <<[start |-> 0, length |-> 2], [start |-> 2, length |-> 2]>>
  /\ last.merge_repeated = last.merge_cells

(***************************************************************************)
(* The reset of a publish and what it leaves (Spec)                        *)
(***************************************************************************)
IsRuleBatch(c, kind) ==
  /\ c.op = "batch_update"
  /\ c.requests # <<>>
  /\ \A k \in 1..Len(c.requests) : c.requests[k].req = kind

\* the calls of _clean_sheet_metadata that take something off the sheet
IsReset(c) ==
  \/ c.op \in {"clear", "unmerge_cells"}
  \/ IsRuleBatch(c, "deleteConditionalFormatRule")

\* the calls that put content, merges, formats or rules on the sheet
IsWrite(c) ==
  \/ c.op \in {"merge_cells", "update", "update_acell", "update_cells",
               "resize", "format", "batch_format"}
  \/ IsRuleBatch(c, "addConditionalFormatRule")

RulesAdded(calls) == AddsOf(calls)

\* C23: in a publish of a non-empty dataset in which no call is rejected,
\* clear, unmerge and the deletion of the rules are all issued before the
\* first call that writes content, merges, formats or adds rules; the
\* sheet then holds the merges and the rules this publish issued and no
\* other, and the title and the table header it wrote.
C23_ResetBeforeFirstWrite ==
  (Published /\ last.rejections = <<>>) =>
    LET calls == last.calls
        ws == sheets[SnapshotTab]
        added == RulesAdded(calls)
    IN  /\ \E i \in 1..Len(calls) : calls[i].op = "clear"
        /\ \E i \in 1..Len(calls) : calls[i].op = "unmerge_cells"
        /\ \A i, j \in 1..Len(calls) :
             (IsReset(calls[i]) /\ IsWrite(calls[j])) => i < j
        /\ ws.merges = {calls[j].range : j \in {k \in 1..Len(calls) :
                                                  calls[k].op = "merge_cells"}}
        /\ Len(ws.rules) = Len(added)
        /\ {ws.rules[k] : k \in 1..Len(ws.rules)}
             = {added[k].rule : k \in 1..Len(added)}
        /\ \A k \in 1..Len(ws.rules) : ws.rules[k].booleanRule.format # "MANUAL"
        /\ <<1, 1>> \in DOMAIN ws.cells
        /\ <<start_row, 1>> \in DOMAIN ws.cells

\* a publish over a sheet that held three hand-made rules and two merges:
\* the three are deleted in one batch before anything is written, and the
\* sheet ends with the title merge and the one rule of this publish
C23_Witness ==
  /\ Published
  /\ last.rejections = <<>>
  /\ \E i \in 1..Len(last.calls) :
       /\ IsRuleBatch(last.calls[i], "deleteConditionalFormatRule")
       /\ Len(last.calls[i].requests) = 3
  /\ sheets[SnapshotTab].merges = {Rect(1, 1, 1, 2)}
  /\ Len(sheets[SnapshotTab].rules) = 1
  /\ sheets[SnapshotTab].rules[1].booleanRule.format = "ALERT_RED"

(***************************************************************************)
(* SpecOrder: runs of the pipeline of src and of src2, no call rejected    *)
(***************************************************************************)
\* run_pipeline of src ("src") or of src2 ("src2"): the same function but
\* for the service whose methods the four steps call
run_pipeline_of(version, s, raw_docs, datasets, servers_config, cameras_config, time_chile) ==
  CASE raw_docs = "error" -> [sheets |-> s, steps |-> <<>>, error_logged |-> TRUE]
    [] raw_docs = "empty" -> [sheets |-> s, steps |-> <<>>, error_logged |-> FALSE]
    [] OTHER -> RunSteps(s, IF version = "src"
                              THEN LoadSteps(servers_config, cameras_config)
                              ELSE LoadSteps_src2(servers_config, cameras_config),
                         1, datasets, time_chile, NoPipelineFault, <<>>, "abort")

InitOrder ==
  /\ sheets = <<>>
  /\ last = NoOp

RunOrdered ==
  \E version \in {"src", "src2"}, raw_docs \in {"docs", "empty"},
     datasets \in PipelineDatasets, time_chile \in Times :
    \E r \in {run_pipeline_of(version, sheets, raw_docs, datasets, PipelineServers,
                              CamerasConfig, time_chile)} :
      /\ HistoryFits(r.sheets, PipelineServers)
      /\ HistoryFits(r.sheets, CamerasConfig)
      /\ sheets' = r.sheets
      /\ last' = [op |-> "run_pipeline_" \o version, raw_docs |-> raw_docs,
                  datasets |-> datasets, raised |-> FALSE,
                  error_logged |-> r.error_logged, steps |-> r.steps]

NextOrder == RunOrdered

SpecOrder == InitOrder /\ [][NextOrder]_vars

\* the sheet a step works on: the snapshot sheet of its entity type for a
\* publish, the history sheet for an append
TargetOf(entity, method) ==
  LET conf == IF entity = "servers" THEN PipelineServers ELSE CamerasConfig IN
  IF method \in {"update_snapshot", "update_snapshot_src2"}
    THEN conf.tab_name ELSE conf.history_tab

StepOrder ==
  << <<"servers", "update_snapshot">>, <<"servers", "append_history">>,
     <<"cameras", "update_snapshot">>, <<"cameras", "append_history">> >>

Suffix(version) == IF version = "run_pipeline_src2" THEN "_src2" ELSE ""

\* C24: a run that found documents makes the four steps one after the
\* other, in the order servers publish, servers append, cameras publish,
\* cameras append; every call of a step is addressed to the sheet of that
\* step, and the spreadsheet after the run is what the calls make of it
\* when they are applied step after step in that order.  A run that found
\* no documents makes no step, hence no call, and leaves the spreadsheet
\* as it was.
C24_FourStepsInOrder ==
  [][ last'.op \in {"run_pipeline_src", "run_pipeline_src2"} =>
        LET steps == last'.steps IN
        IF last'.raw_docs = "empty"
          THEN steps = <<>> /\ sheets' = sheets /\ ~last'.error_logged
          ELSE /\ Len(steps) = 4
               /\ \A k \in 1..4 :
                    /\ steps[k].method = StepOrder[k][2] \o Suffix(last'.op)
                    /\ ~steps[k].raised
                    /\ \A i \in 1..Len(steps[k].calls) :
                         "name" \in DOMAIN steps[k].calls[i] =>
                           steps[k].calls[i].name
                             = TargetOf(StepOrder[k][1], steps[k].method)
                    /\ (~empty(last'.datasets[StepOrder[k][1]])) => steps[k].calls # <<>>
               /\ sheets' = ReplaySteps(sheets, steps, 1) ]_vars

\* a run of src2 that found documents for both entity types: the cameras
\* history was written, after the three sheets before it
C24_Witness ==
  /\ last.op = "run_pipeline_src2"
  /\ last.raw_docs = "docs"
  /\ Len(last.steps) = 4
  /\ last.steps[4].calls # <<>>
  /\ CamerasHistoryTab \in DOMAIN sheets
  /\ CamerasTab \in DOMAIN sheets

\* a run that found no documents, on a spreadsheet earlier runs filled
RunWithoutDocuments ==
  /\ last.op = "run_pipeline_src"
  /\ last.raw_docs = "empty"
  /\ last.steps = <<>>
  /\ HistoryTab \in DOMAIN sheets

(***************************************************************************)
(* SpecLookup: publishes and appends of src and src2 during which the      *)
(* lookup of the sheet may be rejected                                     *)
(***************************************************************************)
LookupLayouts == {Layout("Servidores", HistoryTab, HistoryConf, Absent)}

LookupFrames ==
  { DataFrame(HistoryColumns, << <<Str(<<"a">>), Ts(1), Num(5)>> >>) }

\* ws = self.sh.worksheet(name) is the first call of every method
LookupFaults == {NoFault} \cup {(1 :> k) : k \in AnyAPIError}

InitLookup ==
  /\ sheets = (OtherTab :> OtherSheet)
  /\ last = NoOp

PublishLookupSrc == UpdateSnapshotOver(LookupLayouts, LookupFrames, LookupFaults)

PublishLookupSrc2 == UpdateSnapshotSrc2Over(LookupLayouts, LookupFrames, LookupFaults)

AppendLookupSrc == AppendHistoryOver(LookupLayouts, LookupFrames, LookupFaults)

AppendLookupSrc2 == AppendHistorySrc2Over(LookupLayouts, LookupFrames, LookupFaults)

NextLookup ==
  PublishLookupSrc \/ PublishLookupSrc2 \/ AppendLookupSrc \/ AppendLookupSrc2

SpecLookup == InitLookup /\ [][NextLookup]_vars

Creates(calls) == SelectSeq(calls, LAMBDA c : c.op = "add_worksheet")

\* C26: in every publish and append of src and of src2, a sheet is created
\* only under a name no sheet of the spreadsheet has; a lookup rejected for
\* another reason than the sheet being absent makes the method raise
\* without a create call.
C26_CreateOnlyWhenAbsent ==
  [][ last'.op # "none" =>
        /\ \A k \in 1..Len(Creates(last'.calls)) :
             Creates(last'.calls)[k].name \notin DOMAIN sheets
        /\ (\E n \in 1..Len(last'.rejections) :
              /\ last'.rejections[n].call.op = "worksheet"
              /\ last'.rejections[n].kind \in AnyAPIError)
             => (last'.raised /\ Creates(last'.calls) = <<>>) ]_vars

\* what holds for both versions: the titles stay unique, since the remote
\* rejects a second sheet of the same name; in src a create call is only
\* made for an absent sheet, in src2 after any rejected lookup
CreateAfterAnyRejectionInSrc2 ==
  [][ last'.op # "none" =>
        LET creates == Creates(last'.calls)
            rejected(kinds) ==
              \E n \in 1..Len(last'.rejections) :
                /\ last'.rejections[n].call.op = "worksheet"
                /\ last'.rejections[n].kind \in kinds
        IN  IF last'.op \in {"update_snapshot", "append_history"}
              THEN /\ \A k \in 1..Len(creates) : creates[k].name \notin DOMAIN sheets
                   /\ rejected(AnyAPIError) => (last'.raised /\ creates = <<>>)
              ELSE /\ rejected(AnyAPIError \cup {"WorksheetNotFound"}) => Len(creates) = 1
                   /\ \A k \in 1..Len(creates) :
                        creates[k].name \in DOMAIN sheets
                          => (last'.raised /\ sheets' = sheets) ]_vars

(***************************************************************************)
(* What an append keeps of the history sheet (SpecHistory)                 *)
(***************************************************************************)
\* C27: no append_history changes or removes a cell that held a value
\* before the call, whatever the history sheet held, cell A1 empty over
\* filled rows included.
C27_AppendKeepsEveryRow ==
  [][ (last'.op = "append_history" /\ HistoryTab \in DOMAIN sheets) =>
        \A a \in DOMAIN sheets[HistoryTab].cells :
          /\ a \in DOMAIN sheets'[HistoryTab].cells
          /\ sheets'[HistoryTab].cells[a] = sheets[HistoryTab].cells[a] ]_vars

\* what the code does: with A1 filled every earlier cell is kept; with A1
\* empty the sheet is cut to the n + 1 rows of the dataset and its header,
\* and no cell of those rows keeps a value the dataset does not give it
HeaderWriteReplacesRows ==
  [][ (Appended(last') /\ HistoryTab \in DOMAIN sheets) =>
        LET old == sheets[HistoryTab]
            new == sheets'[HistoryTab]
            n == len(last'.df)
        IN  IF <<1, 1>> \in DOMAIN old.cells
              THEN \A a \in DOMAIN old.cells :
                     a \in DOMAIN new.cells /\ new.cells[a] = old.cells[a]
              ELSE /\ new.rowCount = n + 1
                   /\ \A a \in DOMAIN new.cells : a[1] <= n + 1
                   /\ HeaderIs(new, last'.df.columns)
                   /\ \A i \in 1..n, j \in 1..Len(last'.df.columns) :
                        LET v == last'.df.rows[i][j] IN
                        IF <<i + 1, j>> \in DOMAIN new.cells
                          THEN new.cells[<<i + 1, j>>] = ShownAs(v)
                          ELSE v.t \in {"nan", "none"} ]_vars

(***************************************************************************)
(* SpecMalformed: publishes under thresholds that lack a field             *)
(***************************************************************************)
\* threshold.get("value"), .get("min"), .get("max") give None for a field
\* the threshold lacks
ThresholdsOf(op) ==
  IF op \in {"between", "not_between"}
    THEN {Threshold(op, PyNone, lo, hi) : lo \in {PyNone, Num(10)}, hi \in {PyNone, Num(90)}}
    ELSE {Threshold(op, v, PyNone, PyNone) : v \in {PyNone, Num(90)}}

MalformedLayouts ==
  { Layout("Servidores", Absent,
           << ColumnConf("name", "Servidor", IF c = 1 THEN f ELSE "TEXT",
                         IF c = 1 THEN th ELSE NoThreshold),
              ColumnConf("cpu", "CPU", IF c = 2 THEN f ELSE "NUMBER",
                         IF c = 2 THEN th ELSE NoThreshold) >>,
           Absent) :
      th \in UNION {ThresholdsOf(op) : op \in Supported},
      f \in RuleFormats, c \in {1, 2} }

InitMalformed ==
  /\ sheets = (OtherTab :> OtherSheet)
  /\ last = NoOp

PublishMalformed == UpdateSnapshotOver(MalformedLayouts, RuleFrames, {NoFault})

NextMalformed == PublishMalformed

SpecMalformed == InitMalformed /\ [][NextMalformed]_vars

\* the fields the operator of a threshold reads
FieldsOf(th) ==
  IF th.operator \in {"between", "not_between"} THEN <<th.min, th.max>> ELSE <<th.value>>

Malformed(th) == \E k \in 1..Len(FieldsOf(th)) : FieldsOf(th)[k] = PyNone

HasNoneText(text) ==
  \E k \in 1..Len(text) - 3 : SubSeq(text, k, k + 3) = PyStr(PyNone)

\* C30: after a publish, no rule of the sheet compares with a value made
\* from a field its threshold lacks: none of the rule values is, or holds,
\* the text None.
C30_NoRuleFromAbsentField ==
  Published =>
    \A k \in 1..Len(sheets[SnapshotTab].rules) :
      LET values == sheets[SnapshotTab].rules[k].booleanRule.condition.values IN
      \A n \in 1..Len(values) : ~HasNoneText(values[n].userEnteredValue)

\* what the code does: a threshold with a supported operator always gives
\* one rule; str() turns each field it lacks into the text None, which
\* becomes the comparison value (inside the formula for !=)
AbsentFieldBecomesNone ==
  Published =>
    \A i \in ColumnsAmong(Supported, TRUE) :
      LET th == ConfOf(last.tab_config.columns, last.df.columns[i]).threshold
          rules == SheetRulesOn(i)
          values == rules[1].booleanRule.condition.values
      IN  /\ Len(rules) = 1
          /\ Len(values) = (IF th.operator = "!=" THEN 1 ELSE Len(FieldsOf(th)))
          /\ \A n \in 1..Len(values) :
               HasNoneText(values[n].userEnteredValue)
                 = (IF th.operator = "!=" THEN th.value = PyNone
                    ELSE FieldsOf(th)[n] = PyNone)
          /\ Malformed(th) =>
               \E n \in 1..Len(values) : HasNoneText(values[n].userEnteredValue)

(***************************************************************************)
(* The number of rules after a publish (SpecFaults)                        *)
(***************************************************************************)
\* the columns of the published dataset whose threshold becomes a rule
Translatable == ColumnsAmong(Supported, TRUE)

RuleCleanupFailed(l) ==
  \E k \in 1..Len(l.rejections) :
    /\ l.rejections[k].caught
    /\ l.rejections[k].call.op \in {"fetch_sheet_metadata", "batch_update"}

\* C28: after every publish of a non-empty dataset that returns normally
\* the target sheet holds as many rules as the dataset has columns with a
\* translatable threshold, also when the deletion of the old rules failed
\* and the failure was swallowed.
C28_RuleCountEqualsThresholds ==
  Published => Len(sheets[SnapshotTab].rules) = Cardinality(Translatable)

\* what the code does: the count is that of the thresholds when the cleanup
\* went through; after a swallowed failure of the cleanup the old rules are
\* all still there, under the new ones
RulesPileUpAfterFailedCleanup ==
  [][ (last'.op = "update_snapshot" /\ ~empty(last'.df) /\ ~last'.raised) =>
        LET old == IF SnapshotTab \in DOMAIN sheets
                     THEN sheets[SnapshotTab].rules ELSE <<>>
            new == sheets'[SnapshotTab].rules
            added == AddsOf(last'.calls)
        IN  IF RuleCleanupFailed(last')
              THEN /\ Len(new) = Len(old) + Len(added)
                   /\ SubSeq(new, Len(added) + 1, Len(new)) = old
              ELSE Len(new) = Len(added) ]_vars

====
